---- MODULE Spec2Model ----
(***************************************************************************)
(* Date resolution of the tdl pipeline (the `resolve` command): Persian    *)
(* date phrases to Gregorian dates.  Strings are sequences of characters;  *)
(* a Persian letter is written by its Unicode name ("DAL", "YEH"), an      *)
(* ASCII digit by itself ("0".."9"), a Persian digit as "P0".."P9", the    *)
(* zero-width non-joiner as "ZWNJ", a Latin letter by itself.  A Date is    *)
(* [kind, day, ms]: kind is "date", "null" (no Date at all) or "invalid"   *)
(* (a Date whose time value is NaN); day is the day number since           *)
(* 1970-01-01 (UTC) and ms the milliseconds within that day.               *)
(***************************************************************************)
EXTENDS Integers, Sequences, FiniteSets, TLC

VARIABLES
  argStr,         \* the string argument of the function under check
  argRef,         \* its reference date (null when the argument is omitted)
  jalaliIn,       \* the <<year, month, day>> argument of jalaliToUTCDate
  result,         \* the value returned by the last call
  albums,         \* albumsData.albums as read from albums.json
  resolved,       \* the count of albums resolve has given a date
  dryRun,         \* options.dryRun
  pc,             \* resolve: "idle", "start", "done", or "aborted" by a throw;
                  \* the location pipeline: "analyze", "geocode", "done"
  disk,           \* the albums of albums.json on disk
  locationsTable, \* the rows of table locations of iran-locations.sqlite
  allUntranslated, \* geocode: the names collected for the AI translation
  aiTranslations, \* geocode: the names the AI translation gave a name for
  config,         \* config.ai and the providers that have their keys set
  query,          \* the frame of queryAI and of its queryWithRetry
  run,            \* the frame of analyze: batch, queries in flight
  options         \* the flags --resume and --metadata-only of the command

vars ==
  <<argStr, argRef, jalaliIn, result, albums, resolved, dryRun, pc,
    disk, locationsTable, allUntranslated, aiTranslations, config, query,
    run, options>>

\* no query and no analyze run is under way
NoConfig == [provider |-> "", fallbackProviders |-> <<>>, configured |-> {},
             maxRetries |-> 0]

NoQuery == [pc |-> "idle"]

NoRun == [pc |-> "idle"]

NoOptions == [resume |-> FALSE, metadataOnly |-> FALSE]

AIIdle ==
  config = NoConfig /\ query = NoQuery /\ run = NoRun /\ options = NoOptions

(***************************************************************************)
(* Characters                                                              *)
(***************************************************************************)
AsciiDigits == <<"0", "1", "2", "3", "4", "5", "6", "7", "8", "9">>

PersianDigits == <<"P0", "P1", "P2", "P3", "P4", "P5", "P6", "P7", "P8", "P9">>

PersianLetters ==
  {"AIN", "ALEF", "ALEF_MADDA", "BEH", "DAL", "FEH", "GAF", "HEH", "JEEM",
   "KEHEH", "KHAH", "LAM", "MEEM", "NOON", "PEH", "REH", "SEEN", "SHEEN",
   "TCHEH", "TEH", "THAL", "WAW", "YEH", "ZAIN"}

Range(s) == {s[i] : i \in 1..Len(s)}

\* the class \d
Digit == Range(AsciiDigits)

IsDigit(c) == c \in Digit

\* the character class [U+0600-U+06FF U+0750-U+077F U+FB50-U+FDFF U+FE70-U+FEFF];
\* the Persian digits U+06F0..U+06F9 lie inside its first range
PersianScript == PersianLetters \cup Range(PersianDigits)

IndexIn(s, c) == CHOOSE i \in 1..Len(s) : s[i] = c

DigitVal(c) == IndexIn(AsciiDigits, c) - 1

(***************************************************************************)
(* Number arithmetic as the Jalali library does it: ~~(a / b) truncates    *)
(***************************************************************************)
div(a, b) == IF a >= 0 THEN a \div b ELSE -((-a) \div b)

mod(a, b) == a - div(a, b) * b

\* the decimal value of the first n digits of ds
RECURSIVE DigitsValue(_, _)
DigitsValue(ds, n) ==
  IF n = 0 THEN 0 ELSE 10 * DigitsValue(ds, n - 1) + DigitVal(ds[n])

parseInt(ds) == DigitsValue(ds, Len(ds))

RECURSIVE String(_)
String(n) ==
  IF n < 10 THEN <<AsciiDigits[n + 1]>>
  ELSE String(n \div 10) \o <<AsciiDigits[(n % 10) + 1]>>

RECURSIVE zeroFill(_, _)
zeroFill(digits, w) ==
  IF Len(digits) >= w THEN digits ELSE zeroFill(<<"0">> \o digits, w)

leftZeroFill(n, w) == zeroFill(String(n), w)

(***************************************************************************)
(* The vocabularies, in the order of their keys                            *)
(***************************************************************************)
RELATIVE_DAYS ==
  << [word |-> <<"ALEF", "MEEM", "REH", "WAW", "ZAIN">>, offset |-> 0],
     [word |-> <<"DAL", "YEH", "REH", "WAW", "ZAIN">>, offset |-> -1],
     [word |-> <<"PEH", "REH", "YEH", "REH", "WAW", "ZAIN">>, offset |-> -2],
     [word |-> <<"FEH", "REH", "DAL", "ALEF">>, offset |-> 1],
     [word |-> <<"PEH", "SEEN", "ZWNJ", "FEH", "REH", "DAL", "ALEF">>, offset |-> 2],
     [word |-> <<"PEH", "SEEN", "FEH", "REH", "DAL", "ALEF">>, offset |-> 2] >>

WEEKDAYS ==
  << [word |-> <<"SHEEN", "NOON", "BEH", "HEH">>, day |-> 6],
     [word |-> <<"YEH", "KEHEH", "SHEEN", "NOON", "BEH", "HEH">>, day |-> 0],
     [word |-> <<"YEH", "KEHEH", "ZWNJ", "SHEEN", "NOON", "BEH", "HEH">>, day |-> 0],
     [word |-> <<"DAL", "WAW", "SHEEN", "NOON", "BEH", "HEH">>, day |-> 1],
     [word |-> <<"SEEN", "HEH", "ZWNJ", "SHEEN", "NOON", "BEH", "HEH">>, day |-> 2],
     [word |-> <<"SEEN", "HEH", " ", "SHEEN", "NOON", "BEH", "HEH">>, day |-> 2],
     [word |-> <<"TCHEH", "HEH", "ALEF", "REH", "SHEEN", "NOON", "BEH", "HEH">>, day |-> 3],
     [word |-> <<"TCHEH", "HEH", "ALEF", "REH", "ZWNJ", "SHEEN", "NOON", "BEH", "HEH">>, day |-> 3],
     [word |-> <<"PEH", "NOON", "JEEM", "SHEEN", "NOON", "BEH", "HEH">>, day |-> 4],
     [word |-> <<"PEH", "NOON", "JEEM", "ZWNJ", "SHEEN", "NOON", "BEH", "HEH">>, day |-> 4],
     [word |-> <<"JEEM", "MEEM", "AIN", "HEH">>, day |-> 5] >>

JALALI_MONTHS ==
  << [word |-> <<"FEH", "REH", "WAW", "REH", "DAL", "YEH", "NOON">>, num |-> 1],
     [word |-> <<"ALEF", "REH", "DAL", "YEH", "BEH", "HEH", "SHEEN", "TEH">>, num |-> 2],
     [word |-> <<"KHAH", "REH", "DAL", "ALEF", "DAL">>, num |-> 3],
     [word |-> <<"TEH", "YEH", "REH">>, num |-> 4],
     [word |-> <<"MEEM", "REH", "DAL", "ALEF", "DAL">>, num |-> 5],
     [word |-> <<"SHEEN", "HEH", "REH", "YEH", "WAW", "REH">>, num |-> 6],
     [word |-> <<"MEEM", "HEH", "REH">>, num |-> 7],
     [word |-> <<"ALEF_MADDA", "BEH", "ALEF", "NOON">>, num |-> 8],
     [word |-> <<"ALEF_MADDA", "THAL", "REH">>, num |-> 9],
     [word |-> <<"DAL", "YEH">>, num |-> 10],
     [word |-> <<"BEH", "HEH", "MEEM", "NOON">>, num |-> 11],
     [word |-> <<"ALEF", "SEEN", "FEH", "NOON", "DAL">>, num |-> 12] >>

PERSIAN_ORDINALS ==
  << [word |-> <<"ALEF", "WAW", "LAM">>, num |-> 1],
     [word |-> <<"YEH", "KEHEH", "MEEM">>, num |-> 1],
     [word |-> <<"DAL", "WAW", "MEEM">>, num |-> 2],
     [word |-> <<"SEEN", "WAW", "MEEM">>, num |-> 3],
     [word |-> <<"TCHEH", "HEH", "ALEF", "REH", "MEEM">>, num |-> 4],
     [word |-> <<"PEH", "NOON", "JEEM", "MEEM">>, num |-> 5],
     [word |-> <<"SHEEN", "SHEEN", "MEEM">>, num |-> 6],
     [word |-> <<"HEH", "FEH", "TEH", "MEEM">>, num |-> 7],
     [word |-> <<"HEH", "SHEEN", "TEH", "MEEM">>, num |-> 8],
     [word |-> <<"NOON", "HEH", "MEEM">>, num |-> 9],
     [word |-> <<"DAL", "HEH", "MEEM">>, num |-> 10],
     [word |-> <<"YEH", "ALEF", "ZAIN", "DAL", "HEH", "MEEM">>, num |-> 11],
     [word |-> <<"DAL", "WAW", "ALEF", "ZAIN", "DAL", "HEH", "MEEM">>, num |-> 12],
     [word |-> <<"SEEN", "YEH", "ZAIN", "DAL", "HEH", "MEEM">>, num |-> 13],
     [word |-> <<"TCHEH", "HEH", "ALEF", "REH", "DAL", "HEH", "MEEM">>, num |-> 14],
     [word |-> <<"PEH", "ALEF", "NOON", "ZAIN", "DAL", "HEH", "MEEM">>, num |-> 15],
     [word |-> <<"SHEEN", "ALEF", "NOON", "ZAIN", "DAL", "HEH", "MEEM">>, num |-> 16],
     [word |-> <<"HEH", "FEH", "DAL", "HEH", "MEEM">>, num |-> 17],
     [word |-> <<"HEH", "JEEM", "DAL", "HEH", "MEEM">>, num |-> 18],
     [word |-> <<"HEH", "YEH", "JEEM", "DAL", "HEH", "MEEM">>, num |-> 18],
     [word |-> <<"NOON", "WAW", "ZAIN", "DAL", "HEH", "MEEM">>, num |-> 19],
     [word |-> <<"BEH", "YEH", "SEEN", "TEH", "MEEM">>, num |-> 20],
     [word |-> <<"BEH", "YEH", "SEEN", "TEH", "ZWNJ", "WAW", "YEH", "KEHEH", "MEEM">>, num |-> 21],
     [word |-> <<"BEH", "YEH", "SEEN", "TEH", " ", "WAW", " ", "YEH", "KEHEH", "MEEM">>, num |-> 21],
     [word |-> <<"BEH", "YEH", "SEEN", "TEH", "ZWNJ", "WAW", "DAL", "WAW", "MEEM">>, num |-> 22],
     [word |-> <<"BEH", "YEH", "SEEN", "TEH", " ", "WAW", " ", "DAL", "WAW", "MEEM">>, num |-> 22],
     [word |-> <<"BEH", "YEH", "SEEN", "TEH", "ZWNJ", "WAW", "SEEN", "WAW", "MEEM">>, num |-> 23],
     [word |-> <<"BEH", "YEH", "SEEN", "TEH", " ", "WAW", " ", "SEEN", "WAW", "MEEM">>, num |-> 23],
     [word |-> <<"BEH", "YEH", "SEEN", "TEH", "ZWNJ", "WAW", "TCHEH", "HEH", "ALEF", "REH", "MEEM">>, num |-> 24],
     [word |-> <<"BEH", "YEH", "SEEN", "TEH", " ", "WAW", " ", "TCHEH", "HEH", "ALEF", "REH", "MEEM">>, num |-> 24],
     [word |-> <<"BEH", "YEH", "SEEN", "TEH", "ZWNJ", "WAW", "PEH", "NOON", "JEEM", "MEEM">>, num |-> 25],
     [word |-> <<"BEH", "YEH", "SEEN", "TEH", " ", "WAW", " ", "PEH", "NOON", "JEEM", "MEEM">>, num |-> 25],
     [word |-> <<"BEH", "YEH", "SEEN", "TEH", "ZWNJ", "WAW", "SHEEN", "SHEEN", "MEEM">>, num |-> 26],
     [word |-> <<"BEH", "YEH", "SEEN", "TEH", " ", "WAW", " ", "SHEEN", "SHEEN", "MEEM">>, num |-> 26],
     [word |-> <<"BEH", "YEH", "SEEN", "TEH", "ZWNJ", "WAW", "HEH", "FEH", "TEH", "MEEM">>, num |-> 27],
     [word |-> <<"BEH", "YEH", "SEEN", "TEH", " ", "WAW", " ", "HEH", "FEH", "TEH", "MEEM">>, num |-> 27],
     [word |-> <<"BEH", "YEH", "SEEN", "TEH", "ZWNJ", "WAW", "HEH", "SHEEN", "TEH", "MEEM">>, num |-> 28],
     [word |-> <<"BEH", "YEH", "SEEN", "TEH", " ", "WAW", " ", "HEH", "SHEEN", "TEH", "MEEM">>, num |-> 28],
     [word |-> <<"BEH", "YEH", "SEEN", "TEH", "ZWNJ", "WAW", "NOON", "HEH", "MEEM">>, num |-> 29],
     [word |-> <<"BEH", "YEH", "SEEN", "TEH", " ", "WAW", " ", "NOON", "HEH", "MEEM">>, num |-> 29],
     [word |-> <<"SEEN", "YEH", "ZWNJ", "ALEF", "MEEM">>, num |-> 30],
     [word |-> <<"SEEN", "YEH", "MEEM">>, num |-> 30],
     [word |-> <<"SEEN", "YEH", "ZWNJ", "WAW", "YEH", "KEHEH", "MEEM">>, num |-> 31],
     [word |-> <<"SEEN", "YEH", " ", "WAW", " ", "YEH", "KEHEH", "MEEM">>, num |-> 31] >>

(***************************************************************************)
(* ECMAScript Date: day numbers and the civil calendar (UTC)               *)
(***************************************************************************)
Null == [kind |-> "null", day |-> 0, ms |-> 0]

\* a Date object whose time value is NaN
InvalidDate == [kind |-> "invalid", day |-> 0, ms |-> 0]

Date(d, t) == [kind |-> "date", day |-> d, ms |-> t]

\* `if (date)`: every Date object is truthy, null is not
Truthy(date) == date.kind # "null"

DayFromYear(y) ==
  365 * (y - 1970) + ((y - 1969) \div 4) - ((y - 1901) \div 100)
    + ((y - 1601) \div 400)

InLeapYear(y) == (y % 4 = 0 /\ y % 100 # 0) \/ y % 400 = 0

RECURSIVE YearFromDayFrom(_, _)
YearFromDayFrom(d, y) ==
  IF DayFromYear(y) > d THEN YearFromDayFrom(d, y - 1)
  ELSE IF DayFromYear(y + 1) <= d THEN YearFromDayFrom(d, y + 1)
  ELSE y

YearFromDay(d) == YearFromDayFrom(d, 1970 + (d \div 365))

\* day within the year on which month m0 (0-based) starts
MonthStart(m0, leap) ==
  LET l == IF leap THEN 1 ELSE 0
  IN <<0, 31, 59 + l, 90 + l, 120 + l, 151 + l, 181 + l, 212 + l, 243 + l,
       273 + l, 304 + l, 334 + l>>[m0 + 1]

\* the 0-based month of day w of a year
MonthInYear(w, leap) ==
  CHOOSE m0 \in 0..11 :
    /\ MonthStart(m0, leap) <= w
    /\ (m0 = 11 \/ w < MonthStart(m0 + 1, leap))

\* [y, m0, d]: year, 0-based month and day of the month of a day number
CivilIn(d, y) ==
  LET w == d - DayFromYear(y)
      m0 == MonthInYear(w, InLeapYear(y))
  IN [y |-> y, m0 |-> m0, d |-> w - MonthStart(m0, InLeapYear(y)) + 1]

Civil(d) == CivilIn(d, YearFromDay(d))

DateFromDay(d) == Civil(d).d

MakeDay(year, m0, dt) ==
  LET ym == year + (m0 \div 12)
      mn == m0 % 12
  IN DayFromYear(ym) + MonthStart(mn, InLeapYear(ym)) + dt - 1

getUTCDay(date) == (date.day + 4) % 7

getUTCDate(date) == DateFromDay(date.day)

setUTCDateIn(date, c, dt) ==
  IF date.kind = "invalid" THEN InvalidDate
  ELSE Date(MakeDay(c.y, c.m0, dt), date.ms)

setUTCDate(date, dt) == setUTCDateIn(date, Civil(date.day), dt)

\* new Date('YYYY-MM-DD' + 'T00:00:00.000Z')
DateFromISODay(s) ==
  Date(MakeDay(parseInt(SubSeq(s, 1, 4)), parseInt(SubSeq(s, 6, 7)) - 1,
               parseInt(SubSeq(s, 9, 10))), 0)

\* YYYY-MM-DD
formatISODay(y, m, d) ==
  leftZeroFill(y, 4) \o <<"-">> \o leftZeroFill(m, 2) \o <<"-">>
    \o leftZeroFill(d, 2)

toGregorianStringIn(c) == formatISODay(c.y, c.m0 + 1, c.d)

\* date.toISOString().split('T')[0]
toGregorianString(date) == toGregorianStringIn(Civil(date.day))

(***************************************************************************)
(* The jalali-moment library: Jalali calendar arithmetic                   *)
(***************************************************************************)
breaks ==
  <<-61, 9, 38, 199, 426, 686, 756, 818, 1111, 1181, 1210, 1635, 2060, 2097,
    2192, 2262, 2324, 2394, 2456, 3178>>

\* jalCal throws 'Invalid Jalali year' outside this range
ValidJalaliYear(jy) == jy >= breaks[1] /\ jy < breaks[Len(breaks)]

RECURSIVE jalCalLoop(_, _, _, _)
jalCalLoop(jy, i, jp, leapJ) ==
  LET jm == breaks[i]
      jump == jm - jp
  IN IF jy < jm THEN [jp |-> jp, leapJ |-> leapJ, jump |-> jump]
     ELSE jalCalLoop(jy, i + 1, jm,
                     leapJ + div(jump, 33) * 8 + div(mod(jump, 33), 4))

\* what jalCal computes once the loop has found the cycle l that jy lies in
jalCalIn(l, jy, gy, n) ==
  LET leapJ == l.leapJ + div(n, 33) * 8 + div(mod(n, 33) + 3, 4)
                 + (IF mod(l.jump, 33) = 4 /\ l.jump - n = 4 THEN 1 ELSE 0)
      leapG == div(gy, 4) - div((div(gy, 100) + 1) * 3, 4) - 150
      nn == IF l.jump - n < 6 THEN n - l.jump + div(l.jump + 4, 33) * 33
            ELSE n
      leap == mod(mod(nn + 1, 33) - 1, 4)
  IN [leap |-> IF leap = -1 THEN 4 ELSE leap,
      gy |-> gy,
      march |-> 20 + leapJ - leapG]

jalCalOf(l, jy) == jalCalIn(l, jy, jy + 621, jy - l.jp)

jalCal(jy) == jalCalOf(jalCalLoop(jy, 2, breaks[1], -14), jy)

\* Gregorian date to Julian day number and back
g2d(gy, gm, gd) ==
  LET d == div((gy + div(gm - 8, 6) + 100100) * 1461, 4)
             + div(153 * mod(gm + 9, 12) + 2, 5) + gd - 34840408
  IN d - div(div(gy + 100100 + div(gm - 8, 6), 100) * 3, 4) + 752

d2g(jdn) ==
  LET j0 == 4 * jdn + 139361631
      j == j0 + div(div(4 * jdn + 183187720, 146097) * 3, 4) * 4 - 3908
      i == div(mod(j, 1461), 4) * 5 + 308
      gd == div(mod(i, 153), 5) + 1
      gm == mod(div(i, 153), 12) + 1
  IN [gy |-> div(j, 1461) - 100100 + div(8 - gm, 6), gm |-> gm, gd |-> gd]

j2dIn(r, jm, jd) ==
  g2d(r.gy, 3, r.march) + (jm - 1) * 31 - div(jm, 7) * (jm - 7) + jd - 1

j2d(jy, jm, jd) == j2dIn(jalCal(jy), jm, jd)

\* k days from the first day of Jalali year jy, or before it when k < 0
d2jAt(jy, leap, k) ==
  IF k >= 0 /\ k <= 185
  THEN [jy |-> jy, jm |-> 1 + div(k, 31), jd |-> mod(k, 31) + 1]
  ELSE IF k >= 0
  THEN [jy |-> jy, jm |-> 7 + div(k - 186, 30), jd |-> mod(k - 186, 30) + 1]
  ELSE [jy |-> jy - 1,
        jm |-> 7 + div(k + 179 + (IF leap = 1 THEN 1 ELSE 0), 30),
        jd |-> mod(k + 179 + (IF leap = 1 THEN 1 ELSE 0), 30) + 1]

d2jIn(jdn, gy, r) == d2jAt(gy - 621, r.leap, jdn - g2d(gy, 3, r.march))

d2jOf(jdn, gy) == d2jIn(jdn, gy, jalCal(gy - 621))

d2j(jdn) == d2jOf(jdn, d2g(jdn).gy)

jIsLeapYear(jy) == jalCal(jy).leap = 0

\* month is 0-based, as in the library
jDaysInMonth(year, month) ==
  LET m == mod(month, 12)
      y == year + div(month, 12) - (IF m < 0 THEN 1 ELSE 0)
      mm == IF m < 0 THEN m + 12 ELSE m
  IN IF mm < 6 THEN 31
     ELSE IF mm < 11 THEN 30
     ELSE IF jIsLeapYear(y) THEN 30
     ELSE 29

\* toJalali of the UTC calendar day of a Date: jalaliMoment.utc(date)
toJalaliIn(c) == d2j(g2d(c.y, c.m0 + 1, c.d))

toJalali(date) == toJalaliIn(Civil(date.day))

\* the year d2j hands to jalCal; jalCal throws when it is out of range
toJalaliThrows(date) == ~ValidJalaliYear(YearFromDay(date.day) - 621)

(***************************************************************************)
(* jalaliMoment(input, 'jYYYY/jM/jD'): the three numbers are read from the *)
(* string token by token, then checked against the Jalali calendar         *)
(***************************************************************************)
FirstDigit(s) == CHOOSE i \in 1..Len(s) : IsDigit(s[i]) /\ \A k \in 1..(i - 1) : ~IsDigit(s[k])

RECURSIVE DigitRunLen(_, _, _)
DigitRunLen(s, i, max) ==
  IF max = 0 \/ i > Len(s) \/ ~IsDigit(s[i]) THEN 0
  ELSE 1 + DigitRunLen(s, i + 1, max - 1)

\* one numeric token of at most max digits: its value and the rest of the string
ReadTokenAt(s, i, n) ==
  [val |-> parseInt(SubSeq(s, i, i + n - 1)), rest |-> SubSeq(s, i + n, Len(s))]

ReadTokenFrom(s, i, max) == ReadTokenAt(s, i, DigitRunLen(s, i, max))

ReadToken(s, max) == ReadTokenFrom(s, FirstDigit(s), max)

Moment(kind, g) == [kind |-> kind, gy |-> g.gy, gm |-> g.gm, gd |-> g.gd]

\* dateFromArray: month jm is 0-based; an out-of-range year makes jalCal throw
dateFromArray(jy, jm, jd) ==
  IF ~ValidJalaliYear(jy) THEN Moment("throw", [gy |-> 0, gm |-> 0, gd |-> 0])
  ELSE Moment(IF jd < 1 \/ jd > jDaysInMonth(jy, jm) \/ jm < 0 \/ jm > 11
              THEN "invalid" ELSE "valid",
              d2g(j2d(jy, jm + 1, jd)))

readDay(jy, tm) == dateFromArray(jy, tm.val - 1, ReadToken(tm.rest, 2).val)

readMonth(ty) == readDay(ty.val, ReadToken(ty.rest, 2))

jalaliMoment(input) == readMonth(ReadToken(input, 4))

\* momentToDate with the date built at local midnight of a clock 3:30 ahead
\* of UTC instead of at UTC midnight
momentToDateLocal(jm) ==
  IF jm.kind = "throw" THEN Null
  ELSE IF jm.kind = "invalid" THEN Null
  ELSE Date(MakeDay(jm.gy, jm.gm - 1, jm.gd) - 1, 73800000)

\* momentToDate without the isValid() test
momentToDateUnchecked(jm) ==
  IF jm.kind = "throw" THEN Null
  ELSE DateFromISODay(formatISODay(jm.gy, jm.gm, jm.gd))

\* jm.format('YYYY-MM-DD'), then new Date(gregorian + 'T00:00:00.000Z')
momentToDate(jm) ==
  IF jm.kind = "throw" THEN Null        \* catch
  ELSE IF jm.kind = "invalid" THEN Null \* !jm.isValid()
  ELSE DateFromISODay(formatISODay(jm.gy, jm.gm, jm.gd))

jalaliToUTCDate(year, month, day) ==
  momentToDate(jalaliMoment(String(year) \o <<"/">> \o String(month)
                              \o <<"/">> \o String(day)))

formatJalali(j) ==
  leftZeroFill(j.jy, 4) \o <<"/">> \o leftZeroFill(j.jm, 2) \o <<"/">>
    \o leftZeroFill(j.jd, 2)

\* jalaliMoment.utc(date).format('jYYYY/jMM/jDD')
toJalaliString(date) == formatJalali(toJalali(date))

(***************************************************************************)
(* Strings                                                                 *)
(***************************************************************************)
None == [some |-> FALSE, val |-> 0]

Some(v) == [some |-> TRUE, val |-> v]

IsSpace(c) == c \in {" ", "NL"}

\* the least and the greatest member of a non-empty set of numbers
Least(S) == CHOOSE i \in S : \A k \in S : i <= k

Greatest(S) == CHOOSE i \in S : \A k \in S : i >= k

trimTo(s, ink) ==
  IF ink = {} THEN <<>> ELSE SubSeq(s, Least(ink), Greatest(ink))

\* s without its leading and trailing white space
trim(s) == trimTo(s, {i \in 1..Len(s) : ~IsSpace(s[i])})

\* w occurs in s at position i (1-based)
OccursAt(s, w, i) ==
  /\ i >= 1
  /\ i + Len(w) - 1 <= Len(s)
  /\ \A k \in 1..Len(w) : s[i + k - 1] = w[k]

includes(s, w) == \E i \in 1..(Len(s) - Len(w) + 1) : OccursAt(s, w, i)

persianToEnglishNumbers(str) ==
  [i \in 1..Len(str) |->
     IF str[i] \in Range(PersianDigits)
     THEN AsciiDigits[IndexIn(PersianDigits, str[i])]
     ELSE str[i]]

(***************************************************************************)
(* The regular expressions of the date parser                              *)
(***************************************************************************)
IsSep(c) == c \in {"/", "-"}

\* position i of s holds a character of the class
CharIs(s, i, class) == i >= 1 /\ i <= Len(s) /\ s[i] \in class

\* (\d{4})[\/\-](\d{1,2})[\/\-](\d{1,2}) anchored at position i: the lengths
\* of the month and day groups, or <<0, 0>> when it does not match there
NumericAt(s, i, digit) ==
  LET m == i + 5
      year == \A k \in i..(i + 3) : CharIs(s, k, digit)
      sep1 == i + 4 <= Len(s) /\ IsSep(s[i + 4])
      ml == IF CharIs(s, m, digit) /\ CharIs(s, m + 1, digit)
                 /\ m + 2 <= Len(s) /\ IsSep(s[m + 2])
                 /\ CharIs(s, m + 3, digit)
            THEN 2
            ELSE IF CharIs(s, m, digit) /\ m + 1 <= Len(s) /\ IsSep(s[m + 1])
                      /\ CharIs(s, m + 2, digit)
            THEN 1
            ELSE 0
      d == m + ml + 1
      dl == IF CharIs(s, d + 1, digit) THEN 2 ELSE 1
  IN IF year /\ sep1 /\ ml > 0 THEN <<ml, dl>> ELSE <<0, 0>>

NumericMatchAt(s, i, digit) ==
  [found |-> TRUE, index |-> i, ml |-> NumericAt(s, i, digit)[1],
   dl |-> NumericAt(s, i, digit)[2]]

NumericAmong(s, at, digit) ==
  IF at = {} THEN [found |-> FALSE, index |-> 0, ml |-> 0, dl |-> 0]
  ELSE NumericMatchAt(s, Least(at), digit)

\* the leftmost match at or after position from: [found, index, ml, dl]
NumericFrom(s, from, digit) ==
  NumericAmong(s, {i \in from..Len(s) : NumericAt(s, i, digit)[1] > 0}, digit)

\* normalized.match(/(\d{4})[\/\-](\d{1,2})[\/\-](\d{1,2})/)
numericMatch(s) == NumericFrom(s, 1, Digit)

NumberAt(s, i, n) == Some(parseInt(SubSeq(s, i, i + n - 1)))

FirstNumber(s, at, max) ==
  IF at = {} THEN None
  ELSE NumberAt(s, Least(at), DigitRunLen(s, Least(at), max))

\* dayMatch without its lookbehind and lookahead: /(\d{1,2})/
dayMatchAnyDigits(s) == FirstNumber(s, {i \in 1..Len(s) : IsDigit(s[i])}, 2)

\* normalized.match(/(?<!\d)(\d{1,2})(?!\d)/): the leftmost run of one or two
\* digits that is not part of a longer run
dayMatch(s) ==
  FirstNumber(s, {i \in 1..Len(s) :
                    /\ IsDigit(s[i])
                    /\ ~CharIs(s, i - 1, Digit)
                    /\ ~CharIs(s, i + DigitRunLen(s, i, 2), Digit)}, 2)

\* normalized.match(/(\d{4})/): the leftmost four digits in a row
yearMatch(s) ==
  FirstNumber(s, {i \in 1..(Len(s) - 3) : \A k \in i..(i + 3) : IsDigit(s[k])},
              4)

LeastOr(at, none) == IF at = {} THEN none ELSE Least(at)

\* the 0-based index of the first standalone occurrence of monthName, or -1
findMonthAsWholeWord(text, monthName) ==
  LeastOr({i \in 1..Len(text) :
             /\ OccursAt(text, monthName, i)
             /\ ~CharIs(text, i - 1, PersianScript)
             /\ ~CharIs(text, i + Len(monthName), PersianScript)}, 0) - 1

(***************************************************************************)
(* Ordinal words                                                           *)
(***************************************************************************)
\* where the stable sort by descending word length puts entry i: after the
\* longer words and after the words of its own length that precede it
SortedPosition(t, i) ==
  1 + Cardinality({j \in 1..Len(t) :
                     \/ Len(t[j].word) > Len(t[i].word)
                     \/ Len(t[j].word) = Len(t[i].word) /\ j < i})

InTableOrder(t) == t

SortByLength(t) ==
  [r \in 1..Len(t) |-> t[CHOOSE i \in 1..Len(t) : SortedPosition(t, i) = r]]

\* Object.entries(PERSIAN_ORDINALS).sort((a, b) => b[0].length - a[0].length)
sortedOrdinals == SortByLength(PERSIAN_ORDINALS)

firstOrdinal(hit) ==
  IF hit = {} THEN None ELSE Some(sortedOrdinals[Least(hit)].num)

extractOrdinalDay(text) ==
  firstOrdinal({i \in 1..Len(sortedOrdinals) :
                  includes(text, sortedOrdinals[i].word)})

(***************************************************************************)
(* Property lookup in an object literal: table[key] !== undefined holds    *)
(* for the table's own keys and for the names every object inherits        *)
(***************************************************************************)
ObjectPrototypeKeys ==
  {<<"c", "o", "n", "s", "t", "r", "u", "c", "t", "o", "r">>,
   <<"h", "a", "s", "O", "w", "n", "P", "r", "o", "p", "e", "r", "t", "y">>,
   <<"i", "s", "P", "r", "o", "t", "o", "t", "y", "p", "e", "O", "f">>,
   <<"p", "r", "o", "p", "e", "r", "t", "y", "I", "s", "E", "n", "u", "m", "e", "r", "a", "b", "l", "e">>,
   <<"t", "o", "L", "o", "c", "a", "l", "e", "S", "t", "r", "i", "n", "g">>,
   <<"t", "o", "S", "t", "r", "i", "n", "g">>,
   <<"v", "a", "l", "u", "e", "O", "f">>,
   <<"_", "_", "p", "r", "o", "t", "o", "_", "_">>,
   <<"_", "_", "d", "e", "f", "i", "n", "e", "G", "e", "t", "t", "e", "r", "_", "_">>,
   <<"_", "_", "d", "e", "f", "i", "n", "e", "S", "e", "t", "t", "e", "r", "_", "_">>,
   <<"_", "_", "l", "o", "o", "k", "u", "p", "G", "e", "t", "t", "e", "r", "_", "_">>,
   <<"_", "_", "l", "o", "o", "k", "u", "p", "S", "e", "t", "t", "e", "r", "_", "_">>}

OwnKeys(table) == {table[i].word : i \in 1..Len(table)}

IsDefined(table, key) == key \in OwnKeys(table) \cup ObjectPrototypeKeys

Entry(table, key) == table[CHOOSE i \in 1..Len(table) : table[i].word = key]

(***************************************************************************)
(* parseJalaliDate                                                         *)
(***************************************************************************)
DefaultYear == 1404

\* the day of a month-name phrase: an ordinal word, else a one- or two-digit
\* number
dayOf(ord, normalized) == IF ord.some THEN ord ELSE dayMatch(normalized)

\* yearOf with the reference asked before the text
yearOfReferenceFirst(ym, referenceDate) ==
  IF Truthy(referenceDate) THEN toJalali(referenceDate).jy
  ELSE IF ym.some THEN ym.val
  ELSE DefaultYear

\* its year: in the text, else the reference's Jalali year (UTC), else 1404
yearOf(ym, referenceDate) ==
  IF ym.some THEN ym.val
  ELSE IF Truthy(referenceDate) THEN toJalali(referenceDate).jy
  ELSE DefaultYear

firstMonth(hit, year, day) ==
  IF hit = {} THEN Null
  ELSE jalaliToUTCDate(year, JALALI_MONTHS[Least(hit)].num, day.val)

\* the loop over the month names: the first standalone month name, in the
\* order of JALALI_MONTHS, that makes a valid date with the day and the year
monthLoop(dateStr, day, year) ==
  firstMonth({i \in 1..Len(JALALI_MONTHS) :
                /\ findMonthAsWholeWord(dateStr, JALALI_MONTHS[i].word) # -1
                /\ ~(~day.some \/ day.val < 1 \/ day.val > 31)
                /\ Truthy(jalaliToUTCDate(year, JALALI_MONTHS[i].num, day.val))},
             year, day)

parseMatch(dateStr, normalized, referenceDate, nm) ==
  IF nm.found
  THEN jalaliToUTCDate(
         parseInt(SubSeq(normalized, nm.index, nm.index + 3)),
         parseInt(SubSeq(normalized, nm.index + 5, nm.index + 4 + nm.ml)),
         parseInt(SubSeq(normalized, nm.index + 6 + nm.ml,
                         nm.index + 5 + nm.ml + nm.dl)))
  ELSE monthLoop(dateStr, dayOf(extractOrdinalDay(dateStr), normalized),
                 yearOf(yearMatch(normalized), referenceDate))

parseNormalized(dateStr, normalized, referenceDate) ==
  parseMatch(dateStr, normalized, referenceDate, numericMatch(normalized))

parseJalaliDate(dateStr, referenceDate) ==
  parseNormalized(dateStr, persianToEnglishNumbers(trim(dateStr)),
                  referenceDate)

(***************************************************************************)
(* resolveRelativeDate                                                     *)
(***************************************************************************)
\* weekdayDiff without its rule for the reference's own weekday
weekdayDiffKeepsToday(diff) == IF diff > 0 THEN diff - 7 ELSE diff

\* days back to the most recent past targetDay
weekdayDiff(diff) == IF diff > 0 THEN diff - 7 ELSE IF diff = 0 THEN -7 ELSE diff

addDays(referenceDate, n) ==
  setUTCDate(referenceDate, getUTCDate(referenceDate) + n)

resolveNormalized(normalized, referenceDate) ==
  IF IsDefined(RELATIVE_DAYS, normalized)
  THEN IF normalized \in OwnKeys(RELATIVE_DAYS)
       THEN addDays(referenceDate, Entry(RELATIVE_DAYS, normalized).offset)
       ELSE InvalidDate  \* a number plus an inherited function is NaN
  ELSE IF IsDefined(WEEKDAYS, normalized)
  THEN IF normalized \in OwnKeys(WEEKDAYS)
       THEN addDays(referenceDate,
                    weekdayDiff(Entry(WEEKDAYS, normalized).day
                                  - getUTCDay(referenceDate)))
       ELSE InvalidDate
  ELSE Null

resolveRelativeDate(relativeStr, referenceDate) ==
  resolveNormalized(trim(relativeStr), referenceDate)

(***************************************************************************)
(* extractDatesFromCaption                                                 *)
(***************************************************************************)
WindowRadius == 50

\* the class [U+06F0-U+06F9 \d]
CaptionDigit == Digit \cup Range(PersianDigits)

IsCaptionDigit(c) == c \in CaptionDigit

Max(a, b) == IF a > b THEN a ELSE b

Min(a, b) == IF a < b THEN a ELSE b

\* caption.substring(start, end), both 0-based, end exclusive
substring(s, start, end) == SubSeq(s, start + 1, end)

RECURSIVE numericDates(_, _)

\* the match nm and the matches after it
matchAndRest(caption, nm) ==
  IF ~nm.found THEN <<>>
  ELSE <<SubSeq(caption, nm.index, nm.index + 5 + nm.ml + nm.dl)>>
         \o numericDates(caption, nm.index + 6 + nm.ml + nm.dl)

\* every match of the global numeric pattern, left to right
numericDates(caption, from) ==
  matchAndRest(caption, NumericFrom(caption, from, CaptionDigit))

\* the window of WindowRadius characters around the month name found at idx
segmentAt(caption, monthName, idx) ==
  IF idx = -1 THEN <<>>
  ELSE <<substring(caption, Max(0, idx - WindowRadius),
                   Min(Len(caption), idx + Len(monthName) + WindowRadius))>>

RECURSIVE monthSegments(_, _)
monthSegments(caption, i) ==
  IF i > Len(JALALI_MONTHS) THEN <<>>
  ELSE segmentAt(caption, JALALI_MONTHS[i].word,
                 findMonthAsWholeWord(caption, JALALI_MONTHS[i].word))
         \o monthSegments(caption, i + 1)

RECURSIVE relativeWords(_, _)
relativeWords(caption, i) ==
  IF i > Len(RELATIVE_DAYS) THEN <<>>
  ELSE (IF includes(caption, RELATIVE_DAYS[i].word)
        THEN <<RELATIVE_DAYS[i].word>> ELSE <<>>)
         \o relativeWords(caption, i + 1)

extractDatesFromCaption(caption) ==
  IF caption = <<>> THEN <<>>
  ELSE numericDates(caption, 1) \o monthSegments(caption, 1)
         \o relativeWords(caption, 1)

(***************************************************************************)
(* resolve: one pass over the albums, then albums.json is written          *)
(***************************************************************************)
NoResolved == [gregorian |-> <<>>, jalali |-> <<>>, source |-> "none"]

Unresolved == [date |-> Null, source |-> "telegram_fallback"]

\* one candidate string: the Jalali parse, then the relative or weekday word
tryDate(jalaliDate, relativeDate, jalaliTag, relativeTag) ==
  IF Truthy(jalaliDate) THEN [date |-> jalaliDate, source |-> jalaliTag]
  ELSE IF Truthy(relativeDate)
  THEN [date |-> relativeDate, source |-> relativeTag]
  ELSE Unresolved

RECURSIVE tryDates(_, _, _, _, _)

orNext(r, dates, i, telegramDate, jalaliTag, relativeTag) ==
  IF Truthy(r.date) THEN r   \* break
  ELSE tryDates(dates, i + 1, telegramDate, jalaliTag, relativeTag)

\* the candidate strings from the i-th on, in order, until one resolves
tryDates(dates, i, telegramDate, jalaliTag, relativeTag) ==
  IF i > Len(dates) THEN Unresolved
  ELSE orNext(tryDate(parseJalaliDate(dates[i], telegramDate),
                      resolveRelativeDate(dates[i], telegramDate),
                      jalaliTag, relativeTag),
              dates, i, telegramDate, jalaliTag, relativeTag)

\* fromAnalysis with one tag for both kinds of AI date
fromAnalysisOneTag(album) ==
  IF album.analysis.present /\ Len(album.analysis.dates) > 0
  THEN tryDates(album.analysis.dates, 1, album.telegram_date,
                "jalali", "jalali")
  ELSE Unresolved

\* the AI-extracted dates
fromAnalysis(album) ==
  IF album.analysis.present /\ Len(album.analysis.dates) > 0
  THEN tryDates(album.analysis.dates, 1, album.telegram_date,
                "jalali", "relative")
  ELSE Unresolved

preferred(c, ai) == IF Truthy(c.date) THEN c ELSE ai

\* fromCaption with the caption asked even when an AI date resolved
fromCaptionAlways(album, ai) ==
  IF album.caption_fa # <<>>
  THEN preferred(tryDates(extractDatesFromCaption(album.caption_fa), 1,
                          album.telegram_date, "caption", "caption"), ai)
  ELSE ai

\* the fallback to the caption text, taken when the AI dates gave nothing
fromCaption(album, ai) ==
  IF ~Truthy(ai.date) /\ album.caption_fa # <<>>
  THEN tryDates(extractDatesFromCaption(album.caption_fa), 1,
                album.telegram_date, "caption", "caption")
  ELSE ai

orTelegramDate(album, r) ==
  IF ~Truthy(r.date)
  THEN [date |-> album.telegram_date, source |-> "telegram_fallback"]
  ELSE r

\* finalDate and source of one album
resolveDate(album) ==
  orTelegramDate(album, fromCaption(album, fromAnalysis(album)))

\* toISOString throws a RangeError on an invalid Date, and the Jalali
\* formatter throws outside the years the library covers
formatThrows(date) == date.kind = "invalid" \/ toJalaliThrows(date)

withResolved(album, r) ==
  [album EXCEPT !.resolved_dates =
     [gregorian |-> toGregorianString(r.date),
      jalali |-> toJalaliString(r.date),
      source |-> r.source]]

resolveAlbum(album) == withResolved(album, resolveDate(album))

\* the albums after the loop has run over the first n of them
resolveLoop(as, n) ==
  [i \in 1..Len(as) |-> IF i <= n THEN resolveAlbum(as[i]) ELSE as[i]]

\* the first album at which the loop throws, or 0
firstThrow(as) ==
  LeastOr({i \in 1..Len(as) : formatThrows(resolveDate(as[i]).date)}, 0)

(***************************************************************************)
(* State                                                                   *)
(***************************************************************************)
NoJalali == <<0, 0, 0>>

\* resolve is not running
ResolveIdle ==
  /\ albums = <<>>
  /\ resolved = 0
  /\ dryRun = FALSE
  /\ pc = "idle"
  /\ disk = <<>>
  /\ locationsTable = {}
  /\ allUntranslated = <<>>
  /\ aiTranslations = {}
  /\ AIIdle

\* a call of a pure function changes nothing but the value it returns
OnlyResult ==
  UNCHANGED <<argStr, argRef, jalaliIn, albums, resolved, dryRun, pc, disk,
              locationsTable, allUntranslated,
                 aiTranslations, config, query, run,
                 options>>

Returned(op, date, str, num, list) ==
  [op |-> op, date |-> date, str |-> str, num |-> num, list |-> list]

Pending == Returned("none", Null, <<>>, None, <<>>)

(***************************************************************************)
(* SpecConv: the two calendar conversions applied to a Jalali triple       *)
(***************************************************************************)
ConvYears == 7

ConvInputs == ((1398..(1398 + ConvYears)) \cup {9999}) \X (0..13) \X (0..32)

InitConv ==
  /\ jalaliIn \in ConvInputs
  /\ argStr = <<>>
  /\ argRef = Null
  /\ result = Pending
  /\ ResolveIdle

CallJalaliToUTCDate ==
  /\ result.op = "none"
  /\ result' = Returned("jalaliToUTCDate",
                        jalaliToUTCDate(jalaliIn[1], jalaliIn[2], jalaliIn[3]),
                        <<>>, None, <<>>)
  /\ OnlyResult

CallToJalaliString ==
  /\ result.op = "jalaliToUTCDate"
  /\ result.date.kind = "date"
  /\ ~toJalaliThrows(result.date)
  /\ result' = Returned("toJalaliString", result.date,
                        toJalaliString(result.date), None, <<>>)
  /\ OnlyResult

NextConv == CallJalaliToUTCDate \/ CallToJalaliString

SpecConv == InitConv /\ [][NextConv]_vars

(***************************************************************************)
(* Words and strings the inputs are built from                             *)
(***************************************************************************)
Month(n) == JALALI_MONTHS[n].word

Yesterday == RELATIVE_DAYS[2].word

Tomorrow == RELATIVE_DAYS[4].word

DayAfterTomorrow == RELATIVE_DAYS[5].word

Friday == WEEKDAYS[11].word

ToStringKey == <<"t", "o", "S", "t", "r", "i", "n", "g">>

Day18Dey == <<"1", "8", " ">> \o Month(10)

Numeric18Dey == <<"1", "4", "0", "3", "/", "1", "0", "/", "1", "8">>

\* month 13 does not exist
NumericBadMonth == <<"1", "4", "0", "4", "/", "1", "3", "/", "1">>

\* 1404 is not a leap year: Esfand has 29 days
NumericBadDay == <<"1", "4", "0", "4", "/", "1", "2", "/", "3", "0">>

\* month 7 has 30 days
Numeric31Mehr == <<"1", "4", "0", "3", "/", "7", "/", "3", "1">>

RECURSIVE Flatten(_)
Flatten(ss) == IF ss = <<>> THEN <<>> ELSE ss[1] \o Flatten(Tail(ss))

(***************************************************************************)
(* SpecRelative: resolveRelativeDate applied to a word and a reference     *)
(***************************************************************************)
RefSpan == 7

\* windows over 29 February 2024, over 1 January 2025 and over Nowruz 1404
RefDays == UNION {a..(a + RefSpan) : a \in {19779, 20085, 20164}}

\* midnight and 21:30 UTC
RefTimes == {0, 77400000}

VocabularyWords == OwnKeys(RELATIVE_DAYS) \cup OwnKeys(WEEKDAYS)

OtherWords ==
  ObjectPrototypeKeys
    \cup {<<>>, Month(10), <<"FEH", "REH", "DAL">>, Tomorrow \o <<"YEH">>,
          <<"1", "8">>, Day18Dey}

RelativeInputs ==
  VocabularyWords \cup OtherWords
    \cup {<<" ">> \o w : w \in VocabularyWords}
    \cup {w \o <<" ">> : w \in VocabularyWords}

InitRelative ==
  /\ argStr \in RelativeInputs
  /\ argRef \in {Date(d, t) : d \in RefDays, t \in RefTimes}
  /\ jalaliIn = NoJalali
  /\ result = Pending
  /\ ResolveIdle

CallResolveRelativeDate ==
  /\ result.op = "none"
  /\ result' = Returned("resolveRelativeDate",
                        resolveRelativeDate(argStr, argRef), <<>>, None, <<>>)
  /\ OnlyResult

NextRelative == CallResolveRelativeDate

SpecRelative == InitRelative /\ [][NextRelative]_vars

(***************************************************************************)
(* SpecParse: the parser's functions applied to a text and a reference     *)
(***************************************************************************)
MaxFrags == 3

\* a word that begins with the letters of month 4
ShootingWord ==
  <<"TEH", "YEH", "REH", "ALEF", "NOON", "DAL", "ALEF", "ZAIN", "YEH">>

\* that word after enough other characters to reach the end of the window
\* around a two-letter month name
FarShooting == [i \in 1..(WindowRadius - 3) |-> " "] \o ShootingWord

Fragments ==
  {Month(10),
   <<"1", "8", " ">>,
   <<" ", "P1", "P3", "P9", "P9">>,
   NumericBadMonth \o <<" ">>,
   Numeric18Dey,
   PERSIAN_ORDINALS[2].word \o <<" ">>,
   <<"BEH", "YEH", "SEEN", "TEH", "ZWNJ", "WAW">>,
   FarShooting}

Texts == {Flatten(fs) : fs \in UNION {[1..n -> Fragments] : n \in 0..MaxFrags}}

\* the last day of 1403 at 21:30 UTC (already 1404 in Tehran), and no
\* reference
ParseRefs == {Date(20167, 77400000), Null}

MonthsTried == {4, 10}

InitParse ==
  /\ argStr \in Texts
  /\ argRef \in ParseRefs
  /\ jalaliIn = NoJalali
  /\ result = Pending
  /\ ResolveIdle

CallParseJalaliDate ==
  /\ result.op = "none"
  /\ result' = Returned("parseJalaliDate", parseJalaliDate(argStr, argRef),
                        <<>>, None, <<>>)
  /\ OnlyResult

CallExtractOrdinalDay ==
  /\ result.op = "none"
  /\ result' = Returned("extractOrdinalDay", Null, <<>>,
                        extractOrdinalDay(argStr), <<>>)
  /\ OnlyResult

CallFindMonthAsWholeWord ==
  /\ result.op = "none"
  /\ \E n \in MonthsTried :
       result' = Returned("findMonthAsWholeWord", Null, Month(n),
                          Some(findMonthAsWholeWord(argStr, Month(n))), <<>>)
  /\ OnlyResult

CallExtractDatesFromCaption ==
  /\ result.op = "none"
  /\ result' = Returned("extractDatesFromCaption", Null, <<>>, None,
                        extractDatesFromCaption(argStr))
  /\ OnlyResult

NextParse ==
  \/ CallParseJalaliDate
  \/ CallExtractOrdinalDay
  \/ CallFindMonthAsWholeWord
  \/ CallExtractDatesFromCaption

SpecParse == InitParse /\ [][NextParse]_vars

(***************************************************************************)
(* Spec: the resolve command over albums.json                              *)
(***************************************************************************)
MaxAlbums == 2

\* 2025-01-20 21:30 UTC (1403/11/01) and 2025-03-20 21:30 UTC (1403/12/30)
T1 == Date(20108, 77400000)

T2 == Date(20167, 77400000)

Album(present, dates, caption, date) ==
  [telegram_date |-> date,
   caption_fa |-> caption,
   analysis |-> [present |-> present, dates |-> dates],
   resolved_dates |-> NoResolved]

AlbumChoices ==
  {Album(FALSE, <<>>, <<>>, T1),
   Album(FALSE, <<>>, <<"x", " ">> \o Day18Dey, T1),
   Album(FALSE, <<>>, DayAfterTomorrow \o <<" ", "x">>, T2),
   Album(FALSE, <<>>, <<"x", " ">> \o RELATIVE_DAYS[6].word, T1),
   Album(TRUE, <<Day18Dey>>, <<"x", " ">> \o Numeric18Dey, T2),
   Album(TRUE, <<Numeric18Dey>>, Day18Dey, T1),
   Album(TRUE, <<Yesterday, Numeric18Dey>>, <<>>, T2),
   Album(TRUE, <<Friday>>, Day18Dey, T1),
   Album(TRUE, <<NumericBadMonth, Day18Dey>>, <<>>, T1),
   Album(TRUE, <<NumericBadDay, Yesterday>>, Day18Dey, T2),
   Album(TRUE, <<NumericBadMonth>>, <<"x", " ">> \o Numeric18Dey, T1),
   Album(TRUE, <<ToStringKey>>, <<>>, T1),
   Album(TRUE, <<Numeric31Mehr>>, Month(10), T2),
   Album(TRUE, <<<<"9", "9", "9", "9", "/", "1", "/", "1">>>>,
         <<"x", " ">> \o Yesterday, T1)}

Init ==
  /\ albums \in UNION {[1..n -> AlbumChoices] : n \in 0..MaxAlbums}
  /\ dryRun \in BOOLEAN
  /\ disk = albums
  /\ resolved = 0
  /\ pc = "start"
  /\ argStr = <<>>
  /\ argRef = Null
  /\ jalaliIn = NoJalali
  /\ result = Pending
  /\ locationsTable = {}
  /\ allUntranslated = <<>>
  /\ aiTranslations = {}
  /\ AIIdle

\* the loop ends at album t with a throw, or runs to the end when t = 0
ResolveUntil(t, done) ==
  /\ albums' = done
  /\ resolved' = IF t = 0 THEN Len(albums) ELSE t - 1
  /\ pc' = IF t = 0 THEN "done" ELSE "aborted"
  /\ disk' = IF t = 0 /\ ~dryRun THEN done ELSE disk

ResolveAt(t) ==
  ResolveUntil(t, resolveLoop(albums, IF t = 0 THEN Len(albums) ELSE t - 1))

Resolve ==
  /\ pc = "start"
  /\ ResolveAt(firstThrow(albums))
  /\ UNCHANGED <<argStr, argRef, jalaliIn, result, dryRun, locationsTable,
                 allUntranslated,
                 aiTranslations, config, query, run,
                 options>>

Next == Resolve

Spec == Init /\ [][Next]_vars

(***************************************************************************)
(* Locations: the gazetteer, analyze's location records and geocode        *)
(*                                                                         *)
(* A name is a sequence of words, so that a caption's tokens can be joined *)
(* into two- and three-word names; a local (Persian) word is written in    *)
(* lower case and a foreign (English) word is capitalized.  <<>> is the    *)
(* absent name (undefined or '', both falsy), 0 the absent coordinate.     *)
(***************************************************************************)
Tehran == <<"tehran">>
OstanTehran == <<"ostan", "tehran">>
Golestan == <<"golestan">>
OstanGolestan == <<"ostan", "golestan">>
Gorgan == <<"gorgan">>
Gonbad == <<"gonbad">>
Anzali == <<"anzali">>
BandarAnzali == <<"bandar", "anzali">>
VelayatGolestan == <<"velayat", "golestan">>
Narmak == <<"narmak">>
ShahrakGharb == <<"shahrak", "gharb">>
Kahrizak == <<"kahrizak">>
Mesr == <<"mesr">>
Iran == <<"iran">>
Sayer == <<"sayer">>

\* the letters of each local word, for LENGTH(name_fa)
Letters ==
  [w \in {"tehran", "ostan", "golestan", "gorgan", "narmak", "shahrak",
          "gharb", "kahrizak", "mesr", "iran", "sayer", "dar", "gonbad",
          "velayat", "bandar", "anzali"} |->
     CASE w \in {"tehran", "ostan", "narmak", "gorgan", "iran", "velayat",
                 "anzali"} -> 5
       [] w \in {"golestan", "kahrizak"} -> 6
       [] w = "shahrak" -> 4
       [] w \in {"gharb", "mesr", "dar"} -> 3
       [] OTHER -> 4]

MIN_POPULATION == 1000

FOREIGN_COUNTRIES == (Mesr :> <<"Egypt">>)

PERSIAN_TO_ENGLISH ==
  (Tehran :> <<"Tehran">>) @@ (Gorgan :> <<"Gorgan">>)
    @@ (Narmak :> <<"Narmak">>) @@ (ShahrakGharb :> <<"Shahrak-e", "Gharb">>)
    @@ (Anzali :> <<"Anzali">>) @@ (BandarAnzali :> <<"Bandar", "Anzali">>)
    @@ (Iran :> <<"Iran">>)

CITY_PROVINCE ==
  (Tehran :> [province_fa |-> OstanTehran,
              province_en |-> <<"Tehran", "Province">>])
    @@ (Gorgan :> [province_fa |-> OstanGolestan,
                   province_en |-> <<"Golestan", "Province">>])

TEHRAN_NEIGHBORHOODS == {Narmak, ShahrakGharb}

KNOWN_LOCATIONS ==
  ((DOMAIN PERSIAN_TO_ENGLISH) \ {Iran}) \cup DOMAIN CITY_PROVINCE

\* table[key] of a Map or of an object literal: <<>> when the key is absent
Lookup(table, key) == IF key \in DOMAIN table THEN table[key] ELSE <<>>

\* a || b on names
Or(a, b) == IF a # <<>> THEN a ELSE b

Row(name_fa, name_en, latitude, longitude, admin_level, population,
    province_code) ==
  [name_fa |-> name_fa, name_en |-> name_en, latitude |-> latitude,
   longitude |-> longitude, admin_level |-> admin_level,
   population |-> population, province_code |-> province_code]

NoRow == Row(<<>>, <<>>, 0, 0, 2, 0, "")

\* the row a query returns first: the one of the least ORDER BY key among
\* <<key, row>> pairs, NoRow when the query returns nothing
FirstRow(keyed) ==
  IF keyed = {} THEN NoRow
  ELSE (CHOOSE p \in keyed : \A q \in keyed : q[1] >= p[1])[2]

PopulationCap == 100000000

\* analyze's gazetteer: the first row of each name, major cities before
\* provinces before cities before neighborhoods, larger populations first
loadLocations(rows, name) ==
  FirstRow({<<(CASE r.admin_level = 1 -> 0
                 [] r.admin_level = 0 -> 1
                 [] OTHER -> r.admin_level) * PopulationCap
               + (PopulationCap - 1 - r.population), r>> :
            r \in {q \in rows :
                     /\ q.name_fa = name
                     /\ \/ q.admin_level <= 2 /\ q.population >= MIN_POPULATION
                        \/ q.admin_level = 3
                        \/ q.admin_level = 0}})

getEnglishName(rows, name) == loadLocations(rows, name).name_en

\* geocode's gazetteer: the first row of each name, larger populations first
loadData(rows, name) ==
  FirstRow({<<PopulationCap - 1 - r.population, r>> :
            r \in {q \in rows : q.name_fa = name /\ q.name_en # <<>>}})

getCoordinates(rows, name) ==
  IF loadData(rows, name).latitude # 0 /\ loadData(rows, name).longitude # 0
  THEN [lat |-> loadData(rows, name).latitude,
        lon |-> loadData(rows, name).longitude]
  ELSE [lat |-> 0, lon |-> 0]

RECURSIVE LENGTH(_)
LENGTH(name) ==
  IF name = <<>> THEN 0
  ELSE Letters[Head(name)] + (IF Len(name) > 1 THEN 1 ELSE 0)
         + LENGTH(Tail(name))

\* provinceCodeMap: the first province row of a code, names that begin with
\* the word for province first, then shorter names
provinceCodeMap(rows, code) ==
  FirstRow({<<(IF Head(r.name_fa) = "ostan" THEN 0 ELSE 1) * 100
               + LENGTH(r.name_fa), r>> :
            r \in {q \in rows : /\ q.admin_level = 0
                                /\ q.province_code = code
                                /\ code # ""}})

\* the province code of the first city row of the name, by population, whose
\* code has a province row
cityProvinceCode(rows, city) ==
  FirstRow({<<PopulationCap - 1 - r.population, r>> :
            r \in {q \in rows :
                     /\ q.name_fa = city
                     /\ q.admin_level \in {1, 2}
                     /\ provinceCodeMap(rows, q.province_code) # NoRow}
           }).province_code

\* cityToProvinceMap.get(cityFa); province_fa is <<>> when there is none
getProvinceForCity(rows, cityFa) ==
  [province_fa |-> provinceCodeMap(rows, cityProvinceCode(rows, cityFa)).name_fa,
   province_en |-> provinceCodeMap(rows, cityProvinceCode(rows, cityFa)).name_en]

translateName(persianName, rows) ==
  IF persianName = <<>> THEN <<>>
  ELSE Or(loadData(rows, persianName).name_en,
          Lookup(PERSIAN_TO_ENGLISH, persianName))

LocationInfo(country_fa, country_en, province_fa, province_en, city_fa,
             city_en, area_fa, area_en, lat, lon) ==
  [country_fa |-> country_fa, country_en |-> country_en,
   province_fa |-> province_fa, province_en |-> province_en,
   city_fa |-> city_fa, city_en |-> city_en,
   area_fa |-> area_fa, area_en |-> area_en, lat |-> lat, lon |-> lon]

\* the record {} with no key
NoLocations == LocationInfo(<<>>, <<>>, <<>>, <<>>, <<>>, <<>>, <<>>, <<>>, 0, 0)

\* the parsed reply of the model: success is false when the query failed or
\* its text held no JSON object
AIResponse(success, is_foreign, city_fa, area_fa, province_fa,
           foreign_location) ==
  [success |-> success, is_foreign |-> is_foreign, city_fa |-> city_fa,
   area_fa |-> area_fa, province_fa |-> province_fa,
   foreign_location |-> foreign_location]

\* name || its copy when the gazetteer of analyze has no foreign name for it
englishOrCopy(rows, name) ==
  IF name = <<>> THEN <<>> ELSE Or(getEnglishName(rows, name), name)

\* analysis.locations as processAnalysisResult leaves it
processAnalysisResult(ai, rows) ==
  IF ~ai.success THEN NoLocations
  ELSE IF ai.is_foreign
  THEN LocationInfo(Sayer, <<"Other">>, <<>>, <<>>,
         Or(ai.city_fa, ai.foreign_location),
         Or(Lookup(FOREIGN_COUNTRIES, Or(ai.city_fa, ai.foreign_location)),
            Or(ai.city_fa, ai.foreign_location)),
         <<>>, <<>>, 0, 0)
  ELSE LocationInfo(<<>>, <<>>,
         ai.province_fa, englishOrCopy(rows, ai.province_fa),
         ai.city_fa, englishOrCopy(rows, ai.city_fa),
         ai.area_fa, englishOrCopy(rows, ai.area_fa), 0, 0)

\* only the latitude is taken from coords
withCoordinatesLatOnly(geocoded, coords) ==
  IF coords.lat # 0 THEN [geocoded EXCEPT !.lat = coords.lat] ELSE geocoded

\* result.lat, result.lon = coords when the name has coordinates
withCoordinates(geocoded, coords) ==
  IF coords.lat # 0
  THEN [geocoded EXCEPT !.lat = coords.lat, !.lon = coords.lon]
  ELSE geocoded

\* the province of the gazetteer, else of the override table
provinceOfGazetteerFirst(rows, city_fa) ==
  IF getProvinceForCity(rows, city_fa).province_fa # <<>>
  THEN getProvinceForCity(rows, city_fa)
  ELSE IF city_fa \in DOMAIN CITY_PROVINCE THEN CITY_PROVINCE[city_fa]
  ELSE getProvinceForCity(rows, city_fa)

\* the province of the override table, else of the gazetteer
provinceOf(rows, city_fa) ==
  IF city_fa \in DOMAIN CITY_PROVINCE THEN CITY_PROVINCE[city_fa]
  ELSE getProvinceForCity(rows, city_fa)

\* one candidate name of the caption scan: st is <<cityFa, areaFa>>; a
\* multi-word neighborhood replaces the area, a single word only fills it
matched(st, name, multi) ==
  IF name \in TEHRAN_NEIGHBORHOODS
  THEN <<Or(st[1], Tehran), IF multi THEN name ELSE Or(st[2], name)>>
  ELSE IF name \in KNOWN_LOCATIONS THEN <<Or(st[1], name), st[2]>>
  ELSE st

\* no window of two or three words is looked at
multiWordsSkipped(words, i, st) == st

RECURSIVE multiWords(_, _, _)
multiWords(words, i, st) ==
  IF i >= Len(words) THEN st
  ELSE multiWords(words, i + 1,
         matched(IF i + 2 <= Len(words)
                 THEN matched(st, SubSeq(words, i, i + 2), TRUE)
                 ELSE st,
                 SubSeq(words, i, i + 1), TRUE))

RECURSIVE singleWords(_, _, _)
singleWords(words, i, st) ==
  IF i > Len(words) THEN st
  ELSE singleWords(words, i + 1, matched(st, <<words[i]>>, FALSE))

\* the record built from the cityFa and areaFa the scan found
captionLocation(cityFa, areaFa, rows) ==
  withCoordinates(
    withCoordinates(
      LocationInfo(Iran, <<"Iran">>,
        provinceOf(rows, cityFa).province_fa,
        provinceOf(rows, cityFa).province_en,
        cityFa, Or(translateName(cityFa, rows), cityFa),
        areaFa, Or(translateName(areaFa, rows), areaFa), 0, 0),
      getCoordinates(rows, cityFa)),
    IF areaFa = <<>> THEN [lat |-> 0, lon |-> 0]
    ELSE getCoordinates(rows, areaFa))

\* words are the tokens of the caption; NoLocations stands for null
extractLocationsFromCaption(words, rows) ==
  IF singleWords(words, 1, multiWords(words, 1, <<<<>>, <<>>>>))[1] = <<>>
  THEN NoLocations
  ELSE captionLocation(
         singleWords(words, 1, multiWords(words, 1, <<<<>>, <<>>>>))[1],
         singleWords(words, 1, multiWords(words, 1, <<<<>>, <<>>>>))[2],
         rows)

\* the foreign name of a populated field: locations.x_en ||
\* translateName(locations.x_fa, locationsDB)
translated(fa, en, rows) ==
  IF fa = <<>> THEN <<>> ELSE Or(en, translateName(fa, rows))

\* the candidate lies outside the home country
isForeign(locations) ==
  \/ Or(locations.country_fa, Iran) = Sayer
  \/ Or(locations.country_en, <<"Iran">>) = <<"Other">>

\* the province of the candidate itself is used when its city has none
suppliedProvince(locations, rows) ==
  /\ locations.city_fa # <<>>
  /\ provinceOf(rows, locations.city_fa).province_fa = <<>>
  /\ locations.province_fa # <<>>

\* the record resolveFromDB returns as geocoded
resolveFromDB(locations, rows) ==
  IF isForeign(locations)
  THEN LocationInfo(Sayer, <<"Other">>, <<>>, <<>>, locations.city_fa,
         translated(locations.city_fa, locations.city_en, rows),
         <<>>, <<>>, 0, 0)
  ELSE withCoordinates(
         withCoordinates(
           LocationInfo(Or(locations.country_fa, Iran),
             Or(locations.country_en, <<"Iran">>),
             IF locations.city_fa = <<>> THEN <<>>
             ELSE IF suppliedProvince(locations, rows)
             THEN locations.province_fa
             ELSE provinceOf(rows, locations.city_fa).province_fa,
             IF locations.city_fa = <<>> THEN <<>>
             ELSE IF suppliedProvince(locations, rows)
             THEN translated(locations.province_fa, locations.province_en,
                             rows)
             ELSE provinceOf(rows, locations.city_fa).province_en,
             locations.city_fa,
             translated(locations.city_fa, locations.city_en, rows),
             locations.area_fa,
             translated(locations.area_fa, locations.area_en, rows), 0, 0),
           IF locations.city_fa = <<>> THEN [lat |-> 0, lon |-> 0]
           ELSE getCoordinates(rows, locations.city_fa)),
         IF locations.area_fa = <<>> THEN [lat |-> 0, lon |-> 0]
         ELSE getCoordinates(rows, locations.area_fa))

\* untranslated.push(fa) when the field is populated and has no foreign name
blank(fa, en) == IF fa # <<>> /\ en = <<>> THEN <<fa>> ELSE <<>>

\* the list resolveFromDB returns as untranslated: city, province, area
untranslatedOf(locations, rows) ==
  blank(locations.city_fa,
        translated(locations.city_fa, locations.city_en, rows))
    \o (IF ~isForeign(locations) /\ suppliedProvince(locations, rows)
        THEN blank(locations.province_fa,
                   translated(locations.province_fa, locations.province_en,
                              rows))
        ELSE <<>>)
    \o (IF isForeign(locations) THEN <<>>
        ELSE blank(locations.area_fa,
                   translated(locations.area_fa, locations.area_en, rows)))

\* an album of the location pipeline: the reply the model gives for its
\* caption, the tokens of the caption, analysis.locations and geocoded
\* analysis tells whether the album has an analysis record; an album made
\* here has one exactly when it has locations
LocatedAlbum(ai, caption_fa, locs, geocoded) ==
  [ai |-> ai, caption_fa |-> caption_fa, analysis |-> locs # NoLocations,
   locations |-> locs, geocoded |-> geocoded]

\* analyze without --resume and --dry-run: an album with an empty caption
\* gets the empty record without a query, every other one its reply
analyzed(album, rows) ==
  [album EXCEPT
     !.analysis = TRUE,
     !.locations = IF album.caption_fa = <<>> THEN NoLocations
                   ELSE processAnalysisResult(album.ai, rows)]

\* the album took the caption fallback of geocode
captionFallback(album) == album.locations = NoLocations

\* options.resume && album.geocoded && Object.keys(album.geocoded).length > 0
alreadyGeocoded(album, res) == res /\ album.geocoded # NoLocations

\* phase 1 of geocode for one album
geocodePhase1(album, rows, dry) ==
  IF captionFallback(album)
  THEN IF extractLocationsFromCaption(album.caption_fa, rows) = NoLocations
       THEN [album EXCEPT !.geocoded = NoLocations]
       ELSE IF dry THEN album
       ELSE [album EXCEPT !.geocoded =
               extractLocationsFromCaption(album.caption_fa, rows)]
  ELSE IF dry THEN album
  ELSE [album EXCEPT !.geocoded = resolveFromDB(album.locations, rows)]

\* allUntranslated.add(name) for the names of a list
RECURSIVE addAll(_, _)
addAll(set, names) ==
  IF names = <<>> THEN set
  ELSE addAll(IF \E i \in DOMAIN set : set[i] = Head(names) THEN set
              ELSE Append(set, Head(names)),
              Tail(names))

\* allUntranslated after the first n albums
RECURSIVE collectUntranslated(_, _, _, _)
collectUntranslated(albumList, rows, res, n) ==
  IF n = 0 THEN <<>>
  ELSE addAll(collectUntranslated(albumList, rows, res, n - 1),
              IF alreadyGeocoded(albumList[n], res) THEN <<>>
              ELSE IF captionFallback(albumList[n]) THEN <<>>
              ELSE untranslatedOf(albumList[n].locations, rows))

\* the translation the model returns for a name it translates
AITranslation(name) == <<"Ai">> \o name

\* phase 2 for one field: a blank foreign name takes the translation
applied(fa, en, translations) ==
  IF fa # <<>> /\ en = <<>> /\ fa \in translations THEN AITranslation(fa)
  ELSE en

\* phase 2 of geocode for one album of albumsToProcess
geocodePhase2(album, translations) ==
  IF captionFallback(album) THEN album
  ELSE [album EXCEPT
          !.geocoded.city_en =
            applied(album.geocoded.city_fa, @, translations),
          !.geocoded.area_en =
            applied(album.geocoded.area_fa, @, translations),
          !.geocoded.province_en =
            applied(album.geocoded.province_fa, @, translations)]

(***************************************************************************)
(* SpecGeo: analyze, then geocode, over the albums of albums.json; or      *)
(* geocode alone over an albums.json that already holds location records   *)
(***************************************************************************)
LocationRows ==
  {Row(Tehran, <<"Tehran">>, 35, 51, 1, 7153309, "26"),
   Row(Tehran, <<"Ostan-e", "Tehran">>, 36, 52, 0, 13267637, "26"),
   Row(OstanTehran, <<"Tehran", "Province">>, 36, 52, 0, 0, "26"),
   Row(Narmak, <<"Narmak">>, 37, 53, 3, 0, "26"),
   Row(Golestan, <<"Golestan">>, 38, 54, 0, 1868819, "27"),
   Row(Golestan, <<"Golestan", "Shahr">>, 39, 55, 2, 239556, "26"),
   Row(VelayatGolestan, <<"Golestan">>, 38, 54, 0, 1868819, "27"),
   Row(Gorgan, <<"Gorgan">>, 40, 56, 1, 350676, "27"),
   Row(Gonbad, <<"Gonbad">>, 42, 58, 1, 151910, "27"),
   Row(Mesr, <<"Mesr">>, 41, 57, 2, 300, "10")}

\* the table with every row, with one row missing, and the missing table
Tables == {LocationRows \ {r} : r \in LocationRows} \cup {LocationRows, {}}

Says(city_fa, area_fa, province_fa) ==
  AIResponse(TRUE, FALSE, city_fa, area_fa, province_fa, <<>>)

Caption == <<"dar", "mahalle">>

\* the albums analyze is given
AnalyzeChoices ==
  {LocatedAlbum(Says(Tehran, Narmak, <<>>), Caption, NoLocations, NoLocations),
   LocatedAlbum(Says(Narmak, <<>>, <<>>), Caption, NoLocations, NoLocations),
   LocatedAlbum(Says(Kahrizak, <<>>, <<>>), Caption, NoLocations,
                NoLocations),
   LocatedAlbum(Says(Golestan, <<>>, <<>>), Caption, NoLocations,
                NoLocations),
   LocatedAlbum(Says(Gorgan, <<>>, <<>>), Caption, NoLocations, NoLocations),
   LocatedAlbum(Says(Gonbad, <<>>, <<>>), Caption, NoLocations, NoLocations),
   LocatedAlbum(AIResponse(TRUE, TRUE, <<>>, <<>>, <<>>, Mesr), Caption,
                NoLocations, NoLocations),
   LocatedAlbum(AIResponse(FALSE, FALSE, <<>>, <<>>, <<>>, <<>>),
                <<"dar", "narmak">>, NoLocations, NoLocations),
   LocatedAlbum(Says(<<>>, <<>>, <<>>), <<"shahrak", "gharb", "tehran">>,
                NoLocations, NoLocations),
   LocatedAlbum(AIResponse(FALSE, FALSE, <<>>, <<>>, <<>>, <<>>), <<>>,
                NoLocations, NoLocations)}

Names(country_fa, country_en, province_fa, city_fa, area_fa) ==
  LocationInfo(country_fa, country_en, province_fa, <<>>, city_fa, <<>>,
               area_fa, <<>>, 0, 0)

\* the albums of an albums.json whose location records hold local names only
GeocodeChoices ==
  {LocatedAlbum(Says(<<>>, <<>>, <<>>), Caption, locs, NoLocations) :
     locs \in {Names(<<>>, <<>>, <<>>, Tehran, Narmak),
               Names(<<>>, <<>>, <<>>, Narmak, <<>>),
               Names(<<>>, <<>>, <<>>, Kahrizak, <<>>),
               Names(<<>>, <<>>, OstanTehran, Kahrizak, <<>>),
               Names(<<>>, <<>>, Golestan, Tehran, <<>>),
               Names(Sayer, <<"Other">>, <<>>, Mesr, <<>>)}}

InitGeo ==
  /\ pc \in {"analyze", "geocode"}
  /\ albums \in UNION {[1..n -> IF pc = "analyze" THEN AnalyzeChoices
                                ELSE GeocodeChoices] : n \in 0..MaxAlbums}
  /\ disk = albums
  /\ locationsTable \in Tables
  /\ dryRun \in BOOLEAN
  /\ allUntranslated = <<>>
  /\ aiTranslations = {}
  /\ AIIdle
  /\ resolved = 0
  /\ argStr = <<>>
  /\ argRef = Null
  /\ jalaliIn = NoJalali
  /\ result = Pending

Analyze ==
  /\ pc = "analyze"
  /\ albums' = [i \in DOMAIN albums |-> analyzed(albums[i], locationsTable)]
  /\ disk' = albums'
  /\ pc' = "geocode"
  /\ result' = Returned("analyze", Null, <<>>, None, <<>>)
  /\ UNCHANGED <<argStr, argRef, jalaliIn, resolved, dryRun,
                 locationsTable, allUntranslated,
                 aiTranslations, config, query, run,
                 options>>

\* phase 2 reaches the first album only
geocodeAllFirstOnly(albumList, rows, dry, res, translations) ==
  [i \in DOMAIN albumList |->
     IF alreadyGeocoded(albumList[i], res) THEN albumList[i]
     ELSE IF dry \/ i > 1 THEN geocodePhase1(albumList[i], rows, dry)
     ELSE geocodePhase2(geocodePhase1(albumList[i], rows, dry), translations)]

\* the albums geocode leaves in memory when the model translates the names
\* of translations
geocodeAll(albumList, rows, dry, res, translations) ==
  [i \in DOMAIN albumList |->
     IF alreadyGeocoded(albumList[i], res) THEN albumList[i]
     ELSE IF dry THEN geocodePhase1(albumList[i], rows, dry)
     ELSE geocodePhase2(geocodePhase1(albumList[i], rows, dry), translations)]

Geocode ==
  /\ pc = "geocode"
  /\ allUntranslated' =
       collectUntranslated(disk, locationsTable, options.resume, Len(disk))
  /\ aiTranslations' \in SUBSET {allUntranslated'[i] :
                                  i \in {j \in DOMAIN allUntranslated' :
                                           ~dryRun}}
  /\ albums' = geocodeAll(disk, locationsTable, dryRun, options.resume,
                        aiTranslations')
  /\ disk' = IF dryRun THEN disk ELSE albums'
  /\ pc' = "done"
  /\ UNCHANGED <<argStr, argRef, jalaliIn, result, resolved, dryRun,
                 locationsTable, config, query, run,
                 options>>

NextGeo == Analyze \/ Geocode

SpecGeo == InitGeo /\ [][NextGeo]_vars

(***************************************************************************)
(* SpecCaption: geocode over one album that analyze left without a         *)
(* location record, for every caption of up to MaxWords tokens             *)
(***************************************************************************)
MaxWords == 4

CaptionWords ==
  {"bandar", "anzali", "shahrak", "gharb", "tehran", "narmak", "gorgan",
   "dar"}

InitCaption ==
  /\ pc = "geocode"
  /\ albums \in {<<LocatedAlbum(
                     AIResponse(FALSE, FALSE, <<>>, <<>>, <<>>, <<>>),
                     words, NoLocations, NoLocations)>> :
                  words \in UNION {[1..n -> CaptionWords] : n \in 0..MaxWords}}
  /\ disk = albums
  /\ locationsTable \in {LocationRows, {}}
  /\ dryRun = FALSE
  /\ allUntranslated = <<>>
  /\ aiTranslations = {}
  /\ AIIdle
  /\ resolved = 0
  /\ argStr = <<>>
  /\ argRef = Null
  /\ jalaliIn = NoJalali
  /\ result = Pending

NextCaption == Geocode

SpecCaption == InitCaption /\ [][NextCaption]_vars

(***************************************************************************)
(* AI providers: queryAI and queryWithRetry.  A message is a sequence of   *)
(* words; the outcome of a request is what the HTTP client saw.            *)
(***************************************************************************)
MaxRetries == 2
MaxFallbacks == 2

\* three of the five provider names; ollama is the local one
AIProviders == {"openai", "gemini", "ollama"}

\* config.ollama.url has a default, so ollama is always configured
Configs ==
  {[provider |-> p, fallbackProviders |-> f, configured |-> c \cup {"ollama"},
    maxRetries |-> m] :
     p \in AIProviders,
     f \in UNION {[1..n -> AIProviders] : n \in 0..MaxFallbacks},
     c \in SUBSET {"openai", "gemini"},
     m \in 0..MaxRetries}

Ok == [success |-> TRUE, cause |-> "", status |-> 0, apiMsg |-> <<>>]

Http(status, apiMsg) ==
  [success |-> FALSE, cause |-> "http", status |-> status, apiMsg |-> apiMsg]

NoResponse(cause) ==
  [success |-> FALSE, cause |-> cause, status |-> 0, apiMsg |-> <<>>]

Failures ==
  { Http(429, <<>>),
    Http(429, <<"You", "exceeded", "your", "current", "quota">>),
    Http(500, <<"The", "server", "had", "an", "error">>),
    Http(503, <<"The", "model", "is", "overloaded">>),
    Http(401, <<>>),
    Http(401, <<"Incorrect", "API", "key", "provided">>),
    Http(403, <<"Key", "suspended", "after", "too", "many", "requests">>),
    NoResponse("timeout"),
    NoResponse("connection") }

Outcomes == {Ok} \cup Failures

\* err.message of the HTTP client
errorMsg(outcome) ==
  CASE outcome.cause = "timeout" -> <<"timeout", "of", "60000ms", "exceeded">>
    [] outcome.cause = "connection" -> <<"connect", "ECONNREFUSED">>
    [] outcome.status = 401 ->
         <<"Request", "failed", "with", "status", "code", "401">>
    [] outcome.status = 403 ->
         <<"Request", "failed", "with", "status", "code", "403">>
    [] outcome.status = 429 ->
         <<"Request", "failed", "with", "status", "code", "429">>
    [] outcome.status = 500 ->
         <<"Request", "failed", "with", "status", "code", "500">>
    [] OTHER -> <<"Request", "failed", "with", "status", "code", "503">>

displayName(provider) ==
  CASE provider = "openai" -> "OpenAI"
    [] provider = "gemini" -> "Gemini"
    [] OTHER -> "Ollama"

AIResult(success, error) == [success |-> success, error |-> error]

formatAxiosError(provider, outcome) ==
  IF outcome.apiMsg # <<>>
  THEN AIResult(FALSE, <<displayName(provider), "error:">> \o outcome.apiMsg)
  ELSE AIResult(FALSE, <<displayName(provider), "error:">> \o errorMsg(outcome))

\* queryOpenAI, queryGemini: the catch block formats the error
queryCloud(provider, outcome) ==
  IF outcome.success THEN AIResult(TRUE, <<>>)
  ELSE formatAxiosError(provider, outcome)

\* queryOllama: the catch block takes err.message only
queryOllama(outcome) ==
  IF outcome.success THEN AIResult(TRUE, <<>>)
  ELSE AIResult(FALSE, <<"Ollama", "error:">> \o errorMsg(outcome))

queryFn(provider, outcome) ==
  IF provider = "ollama" THEN queryOllama(outcome)
  ELSE queryCloud(provider, outcome)

lowerWord(w) ==
  CASE w = "OpenAI" -> "openai"
    [] w = "Gemini" -> "gemini"
    [] w = "Ollama" -> "ollama"
    [] w = "Request" -> "request"
    [] w = "ECONNREFUSED" -> "econnrefused"
    [] w = "You" -> "you"
    [] w = "The" -> "the"
    [] w = "Incorrect" -> "incorrect"
    [] w = "API" -> "api"
    [] w = "Key" -> "key"
    [] OTHER -> w

toLowerCase(text) == [k \in DOMAIN text |-> lowerWord(text[k])]

retryablePatterns ==
  { <<"timeout">>, <<"etimedout">>, <<"econnreset">>, <<"econnrefused">>,
    <<"enotfound">>, <<"429">>, <<"rate", "limit">>,
    <<"too", "many", "requests">>, <<"500">>, <<"502">>, <<"503">>,
    <<"504">>, <<"internal", "server", "error">>, <<"bad", "gateway">>,
    <<"service", "unavailable">>, <<"overloaded">> }

isRetryableError(error) ==
  /\ error # <<>>
  /\ \E p \in retryablePatterns : includes(toLowerCase(error), p)

\* the status code alone decides
isRetryableStatus(outcome) ==
  \/ outcome.cause \in {"timeout", "connection"}
  \/ outcome.status = 429
  \/ outcome.status >= 500

providersToTry(cfg) ==
  <<cfg.provider>>
    \o SelectSeq(cfg.fallbackProviders, LAMBDA p : p # cfg.provider)

NoProvidersConfigured == AIResult(FALSE, <<"No", "providers", "configured">>)

NoAttemptsMade == AIResult(FALSE, <<"No", "attempts", "made">>)

\* the frame of queryAI: i is the index into providersToTry, attempts the
\* number of requests queryWithRetry has made for the provider, outcome the
\* outcome of its last request, tried the providers handed to queryWithRetry
QueryFrame(pcq, i, attempts, outcome, lastResult, tried) ==
  [pc |-> pcq, i |-> i, attempts |-> attempts, outcome |-> outcome,
   lastResult |-> lastResult, tried |-> tried]

InitQuery ==
  /\ albums = <<>>
  /\ resolved = 0
  /\ dryRun = FALSE
  /\ pc = "idle"
  /\ disk = <<>>
  /\ locationsTable = {}
  /\ allUntranslated = <<>>
  /\ aiTranslations = {}
  /\ argStr = <<>>
  /\ argRef = Null
  /\ jalaliIn = NoJalali
  /\ result = Pending
  /\ config \in Configs
  /\ query = QueryFrame("provider", 1, 0, Ok, NoProvidersConfigured, <<>>)
  /\ run = NoRun
  /\ options = NoOptions

QueryUnchanged ==
  UNCHANGED <<argStr, argRef, jalaliIn, result, albums, resolved, dryRun, pc,
              disk, locationsTable, allUntranslated, aiTranslations, config,
              run, options>>

\* if (!isProviderConfigured(config, provider)) continue
SkipProvider ==
  /\ query.pc = "provider"
  /\ query.i <= Len(providersToTry(config))
  /\ providersToTry(config)[query.i] \notin config.configured
  /\ query' = [query EXCEPT !.i = @ + 1]
  /\ QueryUnchanged

\* queryAI calls queryWithRetry for the provider
StartProvider ==
  /\ query.pc = "provider"
  /\ query.i <= Len(providersToTry(config))
  /\ providersToTry(config)[query.i] \in config.configured
  /\ query' = [query EXCEPT
                 !.pc = "attempt", !.attempts = 0, !.outcome = Ok,
                 !.lastResult = NoAttemptsMade,
                 !.tried = Append(@, providersToTry(config)[query.i])]
  /\ QueryUnchanged

\* the frame after one pass of the loop of queryWithRetry, and after the
\* return to the loop of queryAI when queryWithRetry returns
afterAttempt(q, cfg, outcome, retryable) ==
  [q EXCEPT
     !.attempts = @ + 1,
     !.outcome = outcome,
     !.lastResult = queryFn(providersToTry(cfg)[q.i], outcome),
     !.pc = IF queryFn(providersToTry(cfg)[q.i], outcome).success THEN "done"
            ELSE IF retryable /\ q.attempts < cfg.maxRetries
                 THEN "attempt"
                 ELSE "provider",
     !.i = IF queryFn(providersToTry(cfg)[q.i], outcome).success
           THEN @
           ELSE IF retryable /\ q.attempts < cfg.maxRetries
                THEN @
                ELSE @ + 1]

Attempt ==
  /\ query.pc = "attempt"
  /\ \E outcome \in Outcomes :
       query' = afterAttempt(query, config, outcome,
                  isRetryableError(
                    queryFn(providersToTry(config)[query.i], outcome).error))
  /\ QueryUnchanged

\* the loop of queryAI is over: return lastResult
ReturnLast ==
  /\ query.pc = "provider"
  /\ query.i > Len(providersToTry(config))
  /\ query' = [query EXCEPT !.pc = "done"]
  /\ QueryUnchanged

NextQuery == SkipProvider \/ StartProvider \/ Attempt \/ ReturnLast

SpecQuery == InitQuery /\ [][NextQuery]_vars

(***************************************************************************)
(* SpecRun: the commands download, analyze and geocode over one            *)
(* albums.json, analyze batch by batch with its queries in flight          *)
(***************************************************************************)
MaxQueue == 4

\* Concurrency: 1 for Ollama (local resources), 3 for cloud providers
getConcurrency(provider) == IF provider = "ollama" THEN 1 ELSE 3

RunConfigs ==
  {[provider |-> p, fallbackProviders |-> <<>>,
    configured |-> {"openai", "ollama"}, maxRetries |-> 0] :
     p \in {"ollama", "openai"}}

\* a downloaded album without analysis
Fresh(ai, caption_fa) == LocatedAlbum(ai, caption_fa, NoLocations, NoLocations)

\* two albums with captions, one with none, and one that an earlier run has
\* analysed and geocoded and that the model would now answer differently
RunChoices ==
  { Fresh(Says(Tehran, Narmak, <<>>), <<"dar", "tehran">>),
    Fresh(Says(Gorgan, <<>>, <<>>), <<"dar", "gorgan">>),
    Fresh(Says(<<>>, <<>>, <<>>), <<>>),
    LocatedAlbum(Says(Tehran, <<>>, <<>>), <<"dar", "tehran">>,
                 Names(<<>>, <<>>, <<>>, Kahrizak, <<>>),
                 LocationInfo(<<>>, <<>>, <<>>, <<>>, Kahrizak,
                              <<"Kahrizak">>, <<>>, <<>>, 0, 0)) }

\* what the channel has that albums.json does not
NewAlbums ==
  { <<>>, <<Fresh(Says(Tehran, Narmak, <<>>), <<"dar", "tehran">>)>>,
    <<Fresh(Says(<<>>, <<>>, <<>>), <<>>)>> }

RunFrame(pcr, toAnalyze, i, inFlight, results) ==
  [pc |-> pcr, toAnalyze |-> toAnalyze, i |-> i, inFlight |-> inFlight,
   results |-> results]

InitRun ==
  /\ pc \in {"download", "analyze", "geocode"}
  /\ disk \in UNION {[1..n -> RunChoices] : n \in 0..MaxQueue}
  /\ albums = disk
  /\ dryRun \in BOOLEAN
  /\ options \in [resume : BOOLEAN,
                  metadataOnly : {m \in BOOLEAN : m => pc = "download"}]
  /\ config \in IF pc = "analyze" THEN RunConfigs ELSE {NoConfig}
  /\ run = NoRun
  /\ query = NoQuery
  /\ locationsTable = LocationRows
  /\ allUntranslated = <<>>
  /\ aiTranslations = {}
  /\ resolved = 0
  /\ argStr = <<>>
  /\ argRef = Null
  /\ jalaliIn = NoJalali
  /\ result = Pending

RunUnchanged ==
  UNCHANGED <<argStr, argRef, jalaliIn, result, resolved, dryRun,
              locationsTable, allUntranslated, aiTranslations, config, query>>

\* download: with --resume the new albums are added to those of albums.json;
\* the file is written unless --dry-run is given without --metadata-only
Download ==
  /\ pc = "download"
  /\ \E newAlbums \in NewAlbums :
       albums' = IF options.resume THEN disk \o newAlbums ELSE newAlbums
  /\ disk' = IF ~dryRun \/ options.metadataOnly THEN albums' ELSE disk
  /\ pc' = "done"
  /\ UNCHANGED <<run, options>>
  /\ RunUnchanged

\* no album is taken for analysed
alreadyAnalyzedNever(album, res) == FALSE

\* if (options.resume && album.analysis) continue
alreadyAnalyzed(album, res) == res /\ album.analysis

\* the first loop of analyze over one album
partitioned(album, res) ==
  IF alreadyAnalyzed(album, res) THEN album
  ELSE IF album.caption_fa = <<>>
       THEN [album EXCEPT !.analysis = TRUE, !.locations = NoLocations]
       ELSE album

pushIf(list, cond, n) == IF cond THEN Append(list, n) ELSE list

\* toAnalyze after the first loop has run over the first n albums
RECURSIVE toAnalyzeOf(_, _, _, _)
toAnalyzeOf(albumList, res, dry, n) ==
  IF n = 0 THEN <<>>
  ELSE pushIf(toAnalyzeOf(albumList, res, dry, n - 1),
              /\ ~alreadyAnalyzed(albumList[n], res)
              /\ albumList[n].caption_fa # <<>>
              /\ ~dry,
              n)

\* analyze up to its batches; with --dry-run it returns here
AnalyzeStart ==
  /\ pc = "analyze"
  /\ run.pc = "idle"
  /\ albums' = [k \in DOMAIN disk |-> partitioned(disk[k], options.resume)]
  /\ run' = IF dryRun THEN run
            ELSE RunFrame("batch",
                          toAnalyzeOf(disk, options.resume, dryRun, Len(disk)),
                          0, {}, <<>>)
  /\ pc' = IF dryRun THEN "done" ELSE pc
  /\ UNCHANGED <<disk, options>>
  /\ RunUnchanged

\* toAnalyze.slice(i, i + concurrency)
batch(frame, concurrency) ==
  SubSeq(frame.toAnalyze, frame.i + 1,
         Min(frame.i + concurrency, Len(frame.toAnalyze)))

\* the queries of the batch are fired; none has settled
FireBatch ==
  /\ pc = "analyze"
  /\ run.pc = "batch"
  /\ run.i < Len(run.toAnalyze)
  /\ run' = [run EXCEPT
               !.pc = "await",
               !.inFlight =
                 DOMAIN batch(run, getConcurrency(config.provider)),
               !.results =
                 [j \in DOMAIN batch(run, getConcurrency(config.provider)) |->
                    AIResponse(FALSE, FALSE, <<>>, <<>>, <<>>, <<>>)]]
  /\ UNCHANGED <<albums, disk, pc, options>>
  /\ RunUnchanged

\* the reply is put at the place of the query that settled last
settledInArrivalOrder(results, inFlight, j, reply) ==
  [results EXCEPT ![Len(results) - Cardinality(inFlight) + 1] = reply]

\* Promise.all: the reply of the j-th query is the j-th result
settled(results, inFlight, j, reply) == [results EXCEPT ![j] = reply]

\* one query of the batch settles with the reply to its album's caption
Settle ==
  /\ pc = "analyze"
  /\ run.pc = "await"
  /\ \E j \in run.inFlight :
       run' = [run EXCEPT
                 !.inFlight = @ \ {j},
                 !.results = settled(@, run.inFlight, j,
                                     albums[run.toAnalyze[run.i + j]].ai)]
  /\ UNCHANGED <<albums, disk, pc, options>>
  /\ RunUnchanged

processed(album, reply, rows) ==
  [album EXCEPT !.analysis = TRUE,
                !.locations = processAnalysisResult(reply, rows)]

\* all have settled: processAnalysisResult(batch[j], results[j]) for every
\* j, then albums.json is written
ProcessBatch ==
  /\ pc = "analyze"
  /\ run.pc = "await"
  /\ run.inFlight = {}
  /\ albums' = [k \in DOMAIN albums |->
                  IF \E j \in DOMAIN run.results : run.toAnalyze[run.i + j] = k
                  THEN processed(albums[k],
                                 run.results[CHOOSE j \in DOMAIN run.results :
                                               run.toAnalyze[run.i + j] = k],
                                 locationsTable)
                  ELSE albums[k]]
  /\ disk' = albums'
  /\ run' = [run EXCEPT !.pc = "batch",
                        !.i = @ + getConcurrency(config.provider),
                        !.results = <<>>]
  /\ UNCHANGED <<pc, options>>
  /\ RunUnchanged

\* after the last batch albums.json is written once more
AnalyzeFinish ==
  /\ pc = "analyze"
  /\ run.pc = "batch"
  /\ run.i >= Len(run.toAnalyze)
  /\ disk' = albums
  /\ run' = [run EXCEPT !.pc = "done"]
  /\ pc' = "done"
  /\ UNCHANGED <<albums, options>>
  /\ RunUnchanged

\* the process is stopped during the batches and analyze is started again
\* with --resume: what was in memory is lost, albums.json stays
Interrupt ==
  /\ pc = "analyze"
  /\ run.pc \in {"batch", "await"}
  /\ albums' = disk
  /\ run' = NoRun
  /\ options' = [options EXCEPT !.resume = TRUE]
  /\ UNCHANGED <<disk, pc>>
  /\ RunUnchanged

NextRun ==
  \/ Download
  \/ AnalyzeStart
  \/ FireBatch
  \/ Settle
  \/ ProcessBatch
  \/ AnalyzeFinish
  \/ Interrupt
  \/ Geocode

SpecRun == InitRun /\ [][NextRun]_vars

(***************************************************************************)
(* Claims                                                                  *)
(***************************************************************************)
Returns(op) == result.op = op

\* C1: for a weekday word of WEEKDAYS and any reference date,
\* resolveRelativeDate returns a date on the named weekday (UTC) that lies
\* 1 to 7 days before the reference; for the reference's own weekday it lies
\* exactly 7 days before, never on the reference day and never after it.
C1_WeekdayMostRecentPast ==
  (Returns("resolveRelativeDate") /\ argStr \in OwnKeys(WEEKDAYS)) =>
    /\ result.date.kind = "date"
    /\ (result.date.day + 4) % 7 = Entry(WEEKDAYS, argStr).day
    /\ argRef.day - result.date.day \in 1..7
    /\ ((argRef.day + 4) % 7 = Entry(WEEKDAYS, argStr).day
          => result.date.day = argRef.day - 7)

\* witness of C1: Friday asked on a Friday gave the Friday a week before
C1_Witness ==
  /\ Returns("resolveRelativeDate")
  /\ argStr = Friday
  /\ (argRef.day + 4) % 7 = 5
  /\ result.date.day = argRef.day - 7

\* the offsets C2 states, in the order of the keys of RELATIVE_DAYS: today,
\* yesterday, the day before yesterday, tomorrow, the day after tomorrow twice
StatedOffsets == <<0, -1, -2, 1, 2, 2>>

StatedOffset(word) ==
  StatedOffsets[CHOOSE i \in 1..Len(RELATIVE_DAYS) : RELATIVE_DAYS[i].word = word]

\* C2: for a relative-day word resolveRelativeDate returns the reference day
\* shifted by the word's offset (0, -1, -2, +1, +2), across month and year
\* boundaries too, and for any word outside the relative and weekday
\* vocabularies it returns null.
C2_RelativeOffsetsElseNull ==
  Returns("resolveRelativeDate") =>
    /\ argStr \in OwnKeys(RELATIVE_DAYS) =>
         /\ result.date.kind = "date"
         /\ result.date.day = argRef.day + StatedOffset(argStr)
    /\ trim(argStr) \notin VocabularyWords => result.date = Null

\* the part of C2 the code keeps: the offsets, and null for every word that
\* is neither in a vocabulary nor a name inherited by every object
C2_OffsetsElseNullButInherited ==
  Returns("resolveRelativeDate") =>
    /\ argStr \in OwnKeys(RELATIVE_DAYS) =>
         /\ result.date.kind = "date"
         /\ result.date.day = argRef.day + StatedOffset(argStr)
    /\ trim(argStr) \notin VocabularyWords \cup ObjectPrototypeKeys
         => result.date = Null

\* the text as the parser reads it
Normalized(text) == persianToEnglishNumbers(trim(text))

\* what the numeric pattern of parseJalaliDate yields for the text
NumericDate(text, ref) ==
  IF numericMatch(Normalized(text)).found
  THEN parseMatch(text, Normalized(text), ref, numericMatch(Normalized(text)))
  ELSE Null

\* what its month-name pattern yields for the text
MonthNameDate(text, ref) ==
  monthLoop(text, dayOf(extractOrdinalDay(text), Normalized(text)),
            yearOf(yearMatch(Normalized(text)), ref))

\* C3: parseJalaliDate tries the numeric pattern, then the month-name
\* pattern, until one succeeds: its result is the numeric date when that is a
\* date, else the month-name date, and null only when neither is a date.
C3_NumericThenMonthNameUntilOneSucceeds ==
  Returns("parseJalaliDate") =>
    result.date = IF Truthy(NumericDate(argStr, argRef))
                  THEN NumericDate(argStr, argRef)
                  ELSE MonthNameDate(argStr, argRef)

\* an occurrence of word at position i of text that no Persian/Arabic-script
\* character touches
Standalone(text, word, i) ==
  /\ OccursAt(text, word, i)
  /\ ~CharIs(text, i - 1, PersianScript)
  /\ ~CharIs(text, i + Len(word), PersianScript)

HasStandalone(text, word) == \E i \in 1..Len(text) : Standalone(text, word, i)

\* the name of Jalali month jm stands as a whole word in text
MonthStandsIn(text, jm) ==
  \E i \in 1..Len(JALALI_MONTHS) :
    JALALI_MONTHS[i].num = jm /\ HasStandalone(text, JALALI_MONTHS[i].word)

\* date was read from a month name of phrase that stands as a whole word in
\* text, or it was not read from a month name
FromWholeWordMonth(phrase, date, text) ==
  (~numericMatch(Normalized(phrase)).found /\ Truthy(date))
    => MonthStandsIn(text, toJalali(date).jm)

\* C4: findMonthAsWholeWord returns -1 when every occurrence of the month
\* name touches a Persian/Arabic-script character, and neither parseJalaliDate
\* nor a candidate of extractDatesFromCaption yields a month whose name only
\* occurs inside a longer word of the text.
C4_MonthOnlyAsWholeWord ==
  /\ (Returns("findMonthAsWholeWord") /\ ~HasStandalone(argStr, result.str))
       => result.num.val = -1
  /\ Returns("parseJalaliDate")
       => FromWholeWordMonth(argStr, result.date, argStr)
  /\ Returns("extractDatesFromCaption") =>
       \A k \in 1..Len(result.list) :
         FromWholeWordMonth(result.list[k],
                            parseJalaliDate(result.list[k], argRef), argStr)

\* the part of C4 the code keeps: each function, on the text it is given
C4_MonthOnlyAsWholeWordOfOwnText ==
  /\ (Returns("findMonthAsWholeWord") /\ ~HasStandalone(argStr, result.str))
       => result.num.val = -1
  /\ Returns("parseJalaliDate")
       => FromWholeWordMonth(argStr, result.date, argStr)
  /\ Returns("extractDatesFromCaption") =>
       \A k \in 1..Len(result.list) :
         FromWholeWordMonth(result.list[k],
                            parseJalaliDate(result.list[k], argRef),
                            result.list[k])

\* the ordinal words of PERSIAN_ORDINALS that text contains
ContainedOrdinals(text) ==
  {i \in 1..Len(PERSIAN_ORDINALS) : includes(text, PERSIAN_ORDINALS[i].word)}

\* num is the number of a longest of the ordinals at the positions in, or
\* none when there is no such ordinal
NumberOfLongest(in, num) ==
  IF in = {} THEN ~num.some
  ELSE /\ num.some
       /\ \E i \in in :
            /\ \A k \in in :
                 Len(PERSIAN_ORDINALS[k].word) <= Len(PERSIAN_ORDINALS[i].word)
            /\ num.val = PERSIAN_ORDINALS[i].num

\* C5: extractOrdinalDay returns the number of a longest ordinal word the
\* text contains, so the longer of two nested ordinals wins, and null when the
\* text contains none.
C5_LongestOrdinal ==
  Returns("extractOrdinalDay") =>
    NumberOfLongest(ContainedOrdinals(argStr), result.num)

\* witness of C5: the text held an ordinal and a shorter ordinal inside it
\* with another number, and the longer one's number came back
C5_Witness ==
  /\ Returns("extractOrdinalDay")
  /\ \E i, k \in ContainedOrdinals(argStr) :
       /\ includes(PERSIAN_ORDINALS[i].word, PERSIAN_ORDINALS[k].word)
       /\ PERSIAN_ORDINALS[i].num # PERSIAN_ORDINALS[k].num
       /\ result.num = Some(PERSIAN_ORDINALS[i].num)

\* the positions of text where four digits in a row begin
FourDigitsAt(text) ==
  {i \in 1..(Len(text) - 3) : \A k \in i..(i + 3) : IsCaptionDigit(text[k])}

\* text has a run of one or two digits that is not part of a longer run
HasStandaloneNumber(text) ==
  \E i \in 1..Len(text) :
    /\ IsCaptionDigit(text[i])
    /\ ~CharIs(text, i - 1, CaptionDigit)
    /\ ~(CharIs(text, i + 1, CaptionDigit) /\ CharIs(text, i + 2, CaptionDigit))

HasWholeWordMonth(text) ==
  \E i \in 1..Len(JALALI_MONTHS) : HasStandalone(text, JALALI_MONTHS[i].word)

\* C6: for a text with a whole-word month name but no ordinal word and no
\* standalone one- or two-digit number, parseJalaliDate returns null.
C6_NoDayNoDate ==
  ( /\ Returns("parseJalaliDate")
    /\ HasWholeWordMonth(argStr)
    /\ ContainedOrdinals(argStr) = {}
    /\ ~HasStandaloneNumber(argStr) )
  => result.date = Null

\* witness of C6: such a text, with a four-digit year in it, gave null
C6_Witness ==
  /\ Returns("parseJalaliDate")
  /\ HasWholeWordMonth(argStr)
  /\ ContainedOrdinals(argStr) = {}
  /\ ~HasStandaloneNumber(argStr)
  /\ FourDigitsAt(argStr) # {}
  /\ result.date = Null

\* the year C7 states for the month-name path
StatedYear(text, ref) ==
  IF FourDigitsAt(text) # {}
  THEN parseInt(persianToEnglishNumbers(
         SubSeq(text, Least(FourDigitsAt(text)), Least(FourDigitsAt(text)) + 3)))
  ELSE IF ref # Null THEN toJalali(ref).jy
  ELSE 1404

\* C7: a date of the month-name path of parseJalaliDate lies in the Jalali
\* year given by the first four digits in a row of the text, else in the
\* Jalali year of the reference date in UTC, else in 1404.
C7_YearOfMonthNamePath ==
  ( /\ Returns("parseJalaliDate")
    /\ ~numericMatch(Normalized(argStr)).found
    /\ Truthy(result.date) )
  => toJalali(result.date).jy = StatedYear(argStr, argRef)

\* witness of C7: a year in the text overrode the year of the reference
C7_Witness ==
  /\ Returns("parseJalaliDate")
  /\ ~numericMatch(Normalized(argStr)).found
  /\ result.date.kind = "date"
  /\ argRef # Null
  /\ FourDigitsAt(argStr) # {}
  /\ toJalali(result.date).jy = 1399
  /\ toJalali(argRef).jy = 1403

\* the AI-extracted date phrases of an album
AIDates(album) ==
  IF album.analysis.present THEN album.analysis.dates ELSE <<>>

Resolves(phrase, ref) ==
  Truthy(parseJalaliDate(phrase, ref)) \/ Truthy(resolveRelativeDate(phrase, ref))

\* the first phrase of the list that resolves, or 0
FirstResolving(phrases, ref) ==
  LeastOr({i \in 1..Len(phrases) : Resolves(phrases[i], ref)}, 0)

\* the strategy that resolves a phrase, in the six names of the specification
StrategyOfPhrase(phrase, ref) ==
  IF Truthy(parseJalaliDate(phrase, ref))
  THEN IF numericMatch(Normalized(phrase)).found
       THEN "exact-numeric-jalali" ELSE "month-name-match"
  ELSE IF trim(phrase) \in OwnKeys(WEEKDAYS)
  THEN "weekday-match" ELSE "relative-day"

StrategyAt(album, ai) ==
  IF ai # 0 THEN StrategyOfPhrase(AIDates(album)[ai], album.telegram_date)
  ELSE IF FirstResolving(extractDatesFromCaption(album.caption_fa),
                         album.telegram_date) # 0
  THEN "caption-fallback"
  ELSE "origin-timestamp-fallback"

\* the strategy that resolves an album
StrategyOf(album) ==
  StrategyAt(album, FirstResolving(AIDates(album), album.telegram_date))

Processed == 1..resolved

Iso20250107 == <<"2", "0", "2", "5", "-", "0", "1", "-", "0", "7">>

TagNamesTier(source, strategy) ==
  /\ source = "jalali"
       <=> strategy \in {"exact-numeric-jalali", "month-name-match"}
  /\ source = "relative" <=> strategy \in {"relative-day", "weekday-match"}
  /\ source = "caption" <=> strategy = "caption-fallback"
  /\ source = "telegram_fallback" <=> strategy = "origin-timestamp-fallback"

LeapByCycle(y) == y % 33 \in {1, 5, 9, 13, 17, 22, 26, 30}

StatedMonthLength(y, m) ==
  IF m <= 6 THEN 31 ELSE IF m <= 11 THEN 30
  ELSE IF LeapByCycle(y) THEN 30 ELSE 29

ValidJalali(j) ==
  /\ j[1] \in 1300..1500
  /\ j[2] \in 1..12
  /\ j[3] \in 1..StatedMonthLength(j[1], j[2])

\* the three numbers of a string yyyy/mm/dd
ReadJalali(str) ==
  <<parseInt(SubSeq(str, 1, 4)), parseInt(SubSeq(str, 6, 7)),
    parseInt(SubSeq(str, 9, 10))>>

\* C9: for every valid Jalali date (y, m, d), jalaliToUTCDate gives a date at
\* UTC midnight and toJalaliString of that date reads (y, m, d) again: the
\* last day of Esfand in leap and other years, the days around Nowruz and
\* around 1 January included.
C9_JalaliRoundTrip ==
  /\ (Returns("jalaliToUTCDate") /\ ValidJalali(jalaliIn))
       => (result.date.kind = "date" /\ result.date.ms = 0)
  /\ (Returns("toJalaliString") /\ ValidJalali(jalaliIn))
       => (Len(result.str) = 10 /\ ReadJalali(result.str) = jalaliIn)

\* witness of C9: the last day of Esfand of the leap year 1403 came back
C9_Witness ==
  /\ Returns("toJalaliString")
  /\ jalaliIn = <<1403, 12, 30>>
  /\ result.str = <<"1", "4", "0", "3", "/", "1", "2", "/", "3", "0">>
  /\ result.date = Date(20167, 0)

\* the year, month and day of the numeric Jalali date in the phrase
NumericTriple(n, at) ==
  <<parseInt(SubSeq(n, at.index, at.index + 3)),
    parseInt(SubSeq(n, at.index + 5, at.index + 4 + at.ml)),
    parseInt(SubSeq(n, at.index + 6 + at.ml, at.index + 5 + at.ml + at.dl))>>

TripleOutOfRange(j) ==
  j[2] \notin 1..12 \/ j[3] > StatedMonthLength(j[1], j[2])

\* the phrase is a numeric Jalali date whose month is outside 1..12 or whose
\* day exceeds the length of the month
OutOfRangeAt(n, at) == at.found /\ TripleOutOfRange(NumericTriple(n, at))

OutOfRangeIn(n) == OutOfRangeAt(n, numericMatch(n))

OutOfRange(phrase) == OutOfRangeIn(Normalized(phrase))

\* the album without its out-of-range AI date phrases
WithoutOutOfRange(album) ==
  [album EXCEPT !.analysis.dates =
     SelectSeq(album.analysis.dates, LAMBDA p : ~OutOfRange(p))]

\* C10: an out-of-range Jalali date phrase yields no date; resolve gives the
\* album what it would get without the phrase, from the next candidate or the
\* next fallback, and the run does not abort because of the phrase.
C10_OutOfRangeIsSkipped ==
  /\ \A i \in 1..Len(albums) :
       \A k \in 1..Len(AIDates(albums[i])) :
         OutOfRange(AIDates(albums[i])[k])
           => parseJalaliDate(AIDates(albums[i])[k], albums[i].telegram_date) = Null
  /\ \A i \in Processed :
       albums[i].resolved_dates
         = resolveAlbum(WithoutOutOfRange(albums[i])).resolved_dates
  /\ pc = "aborted"
       => formatThrows(resolveDate(WithoutOutOfRange(albums[resolved + 1])).date)

\* witness of C10: after month 13 the next phrase gave the date, and after
\* 30 Esfand of a common year the next phrase, a relative word, gave it
C10_Witness ==
  /\ pc = "done"
  /\ \E i, k \in Processed :
       /\ AIDates(albums[i]) = <<NumericBadMonth, Day18Dey>>
       /\ albums[i].resolved_dates.jalali = Numeric18Dey
       /\ albums[i].resolved_dates.source = "jalali"
       /\ AIDates(albums[k]) = <<NumericBadDay, Yesterday>>
       /\ albums[k].resolved_dates.source = "relative"

\* C11: every date a resolution path returns (numeric, month name, relative
\* day, weekday) is at 00:00:00 UTC of its day, whatever the time of day of
\* the reference.
C11_DatesAtUTCMidnight ==
  ( /\ Returns("resolveRelativeDate") \/ Returns("parseJalaliDate")
    /\ result.date.kind = "date" )
  => result.date.ms = 0

\* the part of C11 the code keeps: the dates of the numeric and month-name
\* paths are at UTC midnight, and a relative or weekday date is at the time
\* of day of the reference
C11_MidnightOnlyOnJalaliPaths ==
  /\ (Returns("parseJalaliDate") /\ result.date.kind = "date")
       => result.date.ms = 0
  /\ (Returns("resolveRelativeDate") /\ result.date.kind = "date")
       => result.date.ms = argRef.ms

\* the date a phrase resolves to: its Jalali parse, else its relative date
DateOfPhrase(phrase, ref) ==
  IF Truthy(parseJalaliDate(phrase, ref)) THEN parseJalaliDate(phrase, ref)
  ELSE resolveRelativeDate(phrase, ref)

AITag(phrase, ref) ==
  IF Truthy(parseJalaliDate(phrase, ref)) THEN "jalali" ELSE "relative"

\* the first of the caption's candidates that resolves, or 0
FirstInCaption(album) ==
  FirstResolving(extractDatesFromCaption(album.caption_fa), album.telegram_date)

\* the record r holds the day of the first resolving AI phrase (the ai-th)
\* with its tag when there is one, and holds the tag caption only when no AI
\* phrase resolves, with the day of the first resolving caption candidate
AIBeforeCaption(album, r, ai) ==
  /\ ai # 0 =>
       /\ r.gregorian = toGregorianString(
            DateOfPhrase(AIDates(album)[ai], album.telegram_date))
       /\ r.source = AITag(AIDates(album)[ai], album.telegram_date)
  /\ r.source = "caption" =>
       /\ ai = 0
       /\ FirstInCaption(album) # 0
       /\ r.gregorian = toGregorianString(
            DateOfPhrase(extractDatesFromCaption(album.caption_fa)[FirstInCaption(album)],
                         album.telegram_date))

\* C12: resolve takes the date and the source of the first AI candidate, in
\* list order, that resolves (its Jalali parse before its relative or weekday
\* reading); the caption's candidates are asked, in order, only when no AI
\* candidate resolves, and nothing later changes a date once set.
C12_AIBeforeCaption ==
  \A i \in Processed :
    AIBeforeCaption(albums[i], albums[i].resolved_dates,
                    FirstResolving(AIDates(albums[i]), albums[i].telegram_date))

Iso20250319 == <<"2", "0", "2", "5", "-", "0", "3", "-", "1", "9">>

\* witness of C12: an album whose first AI phrase failed, whose second gave
\* the date although its caption holds another date, and an album whose only
\* AI phrase failed and whose caption gave the date
C12_Witness ==
  /\ pc = "done"
  /\ \E i, k \in Processed :
       /\ AIDates(albums[i]) = <<NumericBadDay, Yesterday>>
       /\ albums[i].caption_fa = Day18Dey
       /\ albums[i].resolved_dates.gregorian = Iso20250319
       /\ albums[i].resolved_dates.source = "relative"
       /\ AIDates(albums[k]) = <<NumericBadMonth>>
       /\ albums[k].resolved_dates.gregorian = Iso20250107
       /\ albums[k].resolved_dates.source = "caption"

\* the record is complete: a Gregorian day, the Jalali string of the same
\* day, and one of the tags
CompleteRecord(r) ==
  /\ Len(r.gregorian) = 10
  /\ Len(r.jalali) = 10
  /\ toGregorianString(jalaliToUTCDate(ReadJalali(r.jalali)[1],
                                       ReadJalali(r.jalali)[2],
                                       ReadJalali(r.jalali)[3])) = r.gregorian
  /\ r.source \in {"jalali", "relative", "caption", "telegram_fallback"}

\* no AI phrase and no caption candidate of the album resolves
NothingResolves(album) ==
  /\ FirstResolving(AIDates(album), album.telegram_date) = 0
  /\ FirstInCaption(album) = 0

\* the record is the album's own day exactly when nothing resolves
FallbackOnlyWhenNothingResolves(album, r) ==
  /\ r.source = "telegram_fallback" <=> NothingResolves(album)
  /\ r.source = "telegram_fallback"
       => r.gregorian = toGregorianString(album.telegram_date)

\* C13: resolve is total: after a pass every album has a complete
\* resolved_dates record, which is the album's own telegram_date day with the
\* tag telegram_fallback when no AI and no caption candidate resolves, and
\* only then.
C13_ResolveIsTotal ==
  pc # "start" =>
    /\ pc = "done"
    /\ \A i \in 1..Len(albums) :
         /\ CompleteRecord(albums[i].resolved_dates)
         /\ FallbackOnlyWhenNothingResolves(albums[i], albums[i].resolved_dates)

\* the part of C13 the code keeps: every album the loop has passed has such a
\* record, and the pass ends early only at an album whose date cannot be
\* formatted
C13_TotalUnlessFormatThrows ==
  /\ \A i \in Processed :
       /\ CompleteRecord(albums[i].resolved_dates)
       /\ FallbackOnlyWhenNothingResolves(albums[i], albums[i].resolved_dates)
  /\ pc = "done" => resolved = Len(albums)
  /\ pc = "aborted" => formatThrows(resolveDate(albums[resolved + 1]).date)

\* the albums geocode wrote a record for
Geocoded == {i \in DOMAIN albums : pc = "done" /\ ~dryRun}

\* the gazetteer entry of the most specific level of a record that has
\* coordinates: the area's, else the city's
MostSpecificEntry(g, rows) ==
  IF g.area_fa # <<>> /\ loadData(rows, g.area_fa).latitude # 0
     /\ loadData(rows, g.area_fa).longitude # 0
  THEN loadData(rows, g.area_fa)
  ELSE IF g.city_fa # <<>> /\ loadData(rows, g.city_fa).latitude # 0
          /\ loadData(rows, g.city_fa).longitude # 0
  THEN loadData(rows, g.city_fa)
  ELSE NoRow

CoordinatesOfEntry(g, entry) ==
  g.lat = entry.latitude /\ g.lon = entry.longitude

\* C14: in every record geocode builds for a place in the home country,
\* from the analysis by resolveFromDB or from the caption by
\* extractLocationsFromCaption, latitude and longitude are both those of
\* the area's gazetteer entry when the area has coordinates, else both
\* those of the city's entry when the city has them, else both absent.
C14_MostSpecificCoordinates ==
  \A i \in Geocoded :
    ~isForeign(albums[i].geocoded)
      => CoordinatesOfEntry(albums[i].geocoded,
           MostSpecificEntry(albums[i].geocoded, locationsTable))

\* a record of city Tehran and area Narmak, from the analysis and from the
\* caption, carries Narmak's coordinates although Tehran has its own
C14_Witness ==
  /\ Geocoded # {}
  /\ loadData(locationsTable, Tehran).latitude = 35
  /\ \E i \in Geocoded :
       /\ ~captionFallback(albums[i])
       /\ albums[i].geocoded.city_fa = Tehran
       /\ albums[i].geocoded.area_fa = Narmak
       /\ albums[i].geocoded.lat = 37
       /\ albums[i].geocoded.lon = 53
  /\ \E i \in Geocoded :
       /\ captionFallback(albums[i])
       /\ albums[i].geocoded.city_fa = Tehran
       /\ albums[i].geocoded.area_fa = Narmak
       /\ albums[i].geocoded.lat = 37
       /\ albums[i].geocoded.lon = 53


\* the rows of a name that loadLocations of analyze reads
LoadedByAnalyze(rows, name, levels) ==
  {r \in rows :
     /\ r.name_fa = name
     /\ r.admin_level \in levels
     /\ r.admin_level \in {1, 2} => r.population >= MIN_POPULATION}

\* the rows of a name that loadData of geocode reads
LoadedByGeocode(rows, name, levels) ==
  {r \in rows :
     r.name_fa = name /\ r.admin_level \in levels /\ r.name_en # <<>>}

NamesOf(rows) == {r.name_fa : r \in rows}

\* C15: for every name that has both a province row (level 0) and a city
\* row (level 1 or 2) among the rows a gazetteer loads, the gazetteer of
\* analyze and the gazetteer of geocode keep the city row, so that the
\* name's level, foreign name and coordinates are the city's.
C15_AmbiguityResolvesToCity ==
  \A name \in NamesOf(locationsTable) :
    /\ ( /\ Returns("analyze")
         /\ LoadedByAnalyze(locationsTable, name, {0}) # {}
         /\ LoadedByAnalyze(locationsTable, name, {1, 2}) # {} )
       => loadLocations(locationsTable, name)
            \in LoadedByAnalyze(locationsTable, name, {1, 2})
    /\ ( /\ pc = "done"
         /\ LoadedByGeocode(locationsTable, name, {0}) # {}
         /\ LoadedByGeocode(locationsTable, name, {1, 2}) # {} )
       => loadData(locationsTable, name)
            \in LoadedByGeocode(locationsTable, name, {1, 2})

\* what holds of C15: the gazetteer of analyze keeps a major city (level 1)
\* before the province of the same name; the gazetteer of geocode keeps the
\* row of the largest population whatever its level
C15_MajorCityBeforeProvince ==
  \A name \in NamesOf(locationsTable) :
    /\ ( /\ Returns("analyze")
         /\ LoadedByAnalyze(locationsTable, name, {1}) # {} )
       => loadLocations(locationsTable, name).admin_level = 1
    /\ pc = "done"
       => \A r \in LoadedByGeocode(locationsTable, name, {0, 1, 2, 3}) :
            loadData(locationsTable, name).population >= r.population


\* the location record of the album names a neighborhood as its city and
\* nothing else, and is not foreign
OnlyNeighborhoodAsCity(locs) ==
  /\ locs.city_fa \in TEHRAN_NEIGHBORHOODS
  /\ locs.area_fa = <<>>
  /\ locs.province_fa = <<>>
  /\ ~isForeign(locs)

\* C16: for a candidate of the home country whose only populated field is
\* city_fa = X with X in TEHRAN_NEIGHBORHOODS, the record geocode writes has
\* city Tehran and area X.
C16_NeighborhoodAnchorsCity ==
  \A i \in Geocoded :
    OnlyNeighborhoodAsCity(albums[i].locations)
      => /\ albums[i].geocoded.city_fa = Tehran
         /\ albums[i].geocoded.area_fa = albums[i].locations.city_fa

\* what the code does instead: the neighborhood stays the city, and the
\* record has no area
C16_NeighborhoodStaysCity ==
  \A i \in Geocoded :
    OnlyNeighborhoodAsCity(albums[i].locations)
      => /\ albums[i].geocoded.city_fa = albums[i].locations.city_fa
         /\ albums[i].geocoded.area_fa = <<>>


\* the city names of the location records geocode resolves from the
\* analysis
CityNames ==
  {albums[i].locations.city_fa : i \in {j \in DOMAIN albums :
     ~captionFallback(albums[j]) /\ albums[j].locations.city_fa # <<>>}}

Occurrences(list, name) == Cardinality({i \in DOMAIN list : list[i] = name})

\* a city name without a foreign name in the gazetteer and in the static
\* table is once in allUntranslated, a city name with one is not in it
OncePerUntranslatable(names, rows) ==
  \A name \in names :
    Occurrences(allUntranslated, name)
      = IF translateName(name, rows) = <<>> THEN 1 ELSE 0

\* C17: after a geocode run over albums whose location records analyze
\* made, every city name that neither the gazetteer nor the static table
\* translates is in the untranslated set exactly once, however many albums
\* name it, and no translatable name is in it.
C17_UntranslatedOncePerName ==
  (pc = "done" /\ Returns("analyze"))
    => OncePerUntranslatable(CityNames, locationsTable)

\* what holds of C17: after analyze, no name at all reaches the set
C17_NothingUntranslatedAfterAnalyze ==
  (pc = "done" /\ Returns("analyze")) => allUntranslated = <<>>

\* and the statement of C17 holds of records that hold local names only
C17_OncePerNameOfLocalRecords ==
  (pc = "done" /\ ~Returns("analyze"))
    => OncePerUntranslatable(CityNames, locationsTable)


\* the foreign name en of the local name fa is the gazetteer's, else the
\* static table's, else blank (or the later AI translation) with fa in the
\* untranslated set; it is never fa itself
TranslatedAsStated(fa, en, rows) ==
  /\ en # fa
  /\ IF loadData(rows, fa).name_en # <<>>
     THEN en = loadData(rows, fa).name_en
     ELSE IF fa \in DOMAIN PERSIAN_TO_ENGLISH
     THEN en = PERSIAN_TO_ENGLISH[fa]
     ELSE /\ en \in {<<>>, AITranslation(fa)}
          /\ Occurrences(allUntranslated, fa) = 1

FieldTranslatedAsStated(fa, en, rows) ==
  fa # <<>> => TranslatedAsStated(fa, en, rows)

\* the albums geocode resolved from a location record of the home country
ResolvedAtHome ==
  {i \in Geocoded :
     ~captionFallback(albums[i]) /\ ~isForeign(albums[i].locations)}

\* C18: for every populated local field (city, area, province) of a
\* candidate of the home country, the foreign name geocode writes is the
\* gazetteer's exact match, else the static table's entry, else blank with
\* the local name in the untranslated list; never a copy of the local name.
C18_GazetteerThenTableThenBlank ==
  \A i \in ResolvedAtHome :
    /\ FieldTranslatedAsStated(albums[i].locations.city_fa,
         albums[i].geocoded.city_en, locationsTable)
    /\ FieldTranslatedAsStated(albums[i].locations.area_fa,
         albums[i].geocoded.area_en, locationsTable)
    /\ FieldTranslatedAsStated(albums[i].locations.province_fa,
         albums[i].geocoded.province_en, locationsTable)

\* what holds of C18: for records that hold local names only, the city and
\* the area are translated as stated
C18_LocalRecordsAsStated ==
  ~Returns("analyze")
    => \A i \in ResolvedAtHome :
         /\ FieldTranslatedAsStated(albums[i].locations.city_fa,
              albums[i].geocoded.city_en, locationsTable)
         /\ FieldTranslatedAsStated(albums[i].locations.area_fa,
              albums[i].geocoded.area_en, locationsTable)


\* the albums geocode resolved from a foreign location record
ResolvedAbroad ==
  {i \in Geocoded :
     ~captionFallback(albums[i]) /\ isForeign(albums[i].locations)}

\* the record holds the Other country and the city fields only
OnlyOtherAndCity(g) ==
  /\ g.country_fa = Sayer
  /\ g.country_en = <<"Other">>
  /\ g.province_fa = <<>> /\ g.province_en = <<>>
  /\ g.area_fa = <<>> /\ g.area_en = <<>>
  /\ g.lat = 0 /\ g.lon = 0

\* the foreign name of a foreign city owes nothing to the gazetteer: it is
\* the country table's entry, else the name the record came with, else any
\* later AI translation, else blank
NotFromGazetteer(locs, g) ==
  g.city_en \in {Lookup(FOREIGN_COUNTRIES, g.city_fa), locs.city_en,
                 AITranslation(g.city_fa), <<>>}

\* C19: for a candidate flagged foreign, geocode writes the Other country
\* and the city fields only, whatever the gazetteer holds for the name, and
\* the city's foreign name is never taken from the gazetteer.
C19_ForeignBypassesGazetteer ==
  \A i \in ResolvedAbroad :
    /\ OnlyOtherAndCity(albums[i].geocoded)
    /\ albums[i].geocoded.city_fa = albums[i].locations.city_fa
    /\ NotFromGazetteer(albums[i].locations, albums[i].geocoded)

\* what holds of C19: the frame of the record, for every foreign candidate,
\* and the whole statement for the records analyze made
C19_ForeignFrame ==
  \A i \in ResolvedAbroad :
    /\ OnlyOtherAndCity(albums[i].geocoded)
    /\ albums[i].geocoded.city_fa = albums[i].locations.city_fa
    /\ Returns("analyze")
         => NotFromGazetteer(albums[i].locations, albums[i].geocoded)




\* the word every standard province name begins with
HasProvincePrefix(r) == Head(r.name_fa) = "ostan"

\* p is the canonical province row of its code: no other province row of
\* the code has the prefix when p has none, or is shorter with the same
\* prefix standing
Canonical(rows, p) ==
  /\ p \in rows
  /\ p.admin_level = 0
  /\ \A q \in {r \in rows :
                 r.admin_level = 0 /\ r.province_code = p.province_code} :
       \/ HasProvincePrefix(p) /\ ~HasProvincePrefix(q)
       \/ /\ HasProvincePrefix(p) = HasProvincePrefix(q)
          /\ LENGTH(p.name_fa) <= LENGTH(q.name_fa)

\* the city rows of a name whose province code has a province row
CityRows(rows, city) ==
  {r \in rows :
     /\ r.name_fa = city
     /\ r.admin_level \in {1, 2}
     /\ \E p \in rows : p.admin_level = 0 /\ p.province_code = r.province_code}

\* the city's province code is that of its most populous city row
ProvinceCodeOf(rows, city, code) ==
  \E c \in CityRows(rows, city) :
    /\ c.province_code = code
    /\ \A d \in CityRows(rows, city) : d.population <= c.population

ProvinceAsStated(g, rows) ==
  IF g.city_fa \in DOMAIN CITY_PROVINCE
  THEN /\ g.province_fa = CITY_PROVINCE[g.city_fa].province_fa
       /\ g.province_en = CITY_PROVINCE[g.city_fa].province_en
  ELSE CityRows(rows, g.city_fa) # {}
         => \E p \in rows :
              /\ Canonical(rows, p)
              /\ ProvinceCodeOf(rows, g.city_fa, p.province_code)
              /\ g.province_fa = p.name_fa
              /\ g.province_en = p.name_en

\* C20: in every record geocode writes for a city of the home country, the
\* province is the override table's when the city is in CITY_PROVINCE,
\* whatever province the gazetteer derives; for any other city with a city
\* row it is the canonical province row of the city's province code: one
\* whose name begins with the province prefix if there is one, and the
\* shortest name among those.
C20_OverrideThenCanonicalProvince ==
  \A i \in Geocoded :
    (albums[i].geocoded.city_fa # <<>> /\ ~isForeign(albums[i].geocoded))
      => ProvinceAsStated(albums[i].geocoded, locationsTable)

\* Gorgan gets the override's province although the gazetteer derives
\* another name for it; Golestan town, which has no override, gets the
\* prefixed province name of code 26 although an unprefixed shorter one
\* exists
C20_Witness ==
  /\ locationsTable = LocationRows
  /\ \E i \in Geocoded :
       /\ albums[i].geocoded.city_fa = Gorgan
       /\ getProvinceForCity(locationsTable, Gorgan).province_fa = Golestan
       /\ albums[i].geocoded.province_fa = OstanGolestan
  /\ \E i \in Geocoded :
       /\ albums[i].geocoded.city_fa = Golestan
       /\ albums[i].geocoded.province_fa = OstanTehran
       /\ MostSpecificEntry(albums[i].geocoded, locationsTable).admin_level = 0


\* the albums geocode resolved from a record of the home country that names
\* both a city and a province
SuppliesProvince ==
  {i \in ResolvedAtHome :
     /\ albums[i].locations.city_fa # <<>>
     /\ albums[i].locations.province_fa # <<>>}

\* C21: for a candidate with both city_fa and province_fa, the record
\* resolveFromDB returns holds the supplied province_fa; the override table
\* and the gazetteer are asked for a province only when province_fa is
\* absent.
C21_SuppliedProvinceIsKept ==
  \A i \in SuppliesProvince :
    albums[i].geocoded.province_fa = albums[i].locations.province_fa

\* what the code does instead: the supplied province is used only when
\* neither the override table nor the gazetteer gives the city a province
C21_SuppliedOnlyWhenNotInferred ==
  \A i \in SuppliesProvince :
    albums[i].geocoded.province_fa =
      IF provinceOf(locationsTable, albums[i].locations.city_fa).province_fa
           # <<>>
      THEN provinceOf(locationsTable, albums[i].locations.city_fa).province_fa
      ELSE albums[i].locations.province_fa


\* a field of a pending album after the batch translation: a blank foreign
\* name whose local name the batch translated holds the translation, any
\* other foreign name is what phase 1 left
MergedField(fa, before, after) ==
  after = IF fa # <<>> /\ before = <<>> /\ fa \in aiTranslations
          THEN AITranslation(fa)
          ELSE before

MergedRecord(before, after) ==
  /\ MergedField(before.city_fa, before.city_en, after.city_en)
  /\ MergedField(before.area_fa, before.area_en, after.area_en)
  /\ MergedField(before.province_fa, before.province_en, after.province_en)

\* C22: after the batch translation of geocode, in every pending album (one
\* resolved from its analysis in this run) every field, city, area and
\* province, that phase 1 left with a blank foreign name and whose local
\* name the batch translated holds that translation, in each album that
\* names it; a field that had a foreign name keeps it.
C22_TranslationsMergedEverywhere ==
  \A i \in Geocoded :
    ~captionFallback(albums[i])
      => MergedRecord(resolveFromDB(albums[i].locations, locationsTable),
                      albums[i].geocoded)

\* two albums name the same untranslatable city, the batch translates it,
\* and both hold the translation; another field of one of them keeps the
\* foreign name it had
C22_Witness ==
  /\ Len(albums) = 2
  /\ Geocoded # {}
  /\ albums[1].locations.city_fa = Kahrizak
  /\ albums[2].locations.city_fa = Kahrizak
  /\ albums[2].locations.province_fa = OstanTehran
  /\ allUntranslated = <<Kahrizak>>
  /\ aiTranslations = {Kahrizak}
  /\ albums[1].geocoded.city_en = AITranslation(Kahrizak)
  /\ albums[2].geocoded.city_en = AITranslation(Kahrizak)
  /\ albums[2].geocoded.province_en = <<"Tehran", "Province">>


\* the name stands in the caption at token i
StandsAt(words, i, name) ==
  /\ i >= 1
  /\ i + Len(name) - 1 <= Len(words)
  /\ SubSeq(words, i, i + Len(name) - 1) = name

\* the first token at which the name stands, 0 when it does not
FirstAt(words, name) ==
  IF \E i \in 1..Len(words) : StandsAt(words, i, name)
  THEN CHOOSE i \in 1..Len(words) :
         /\ StandsAt(words, i, name)
         /\ \A j \in 1..(i - 1) : ~StandsAt(words, j, name)
  ELSE 0

\* the known names of several words that are no neighborhoods and hold a
\* word that is a known name itself
CompoundCities ==
  {n \in KNOWN_LOCATIONS \ TEHRAN_NEIGHBORHOODS :
     /\ Len(n) >= 2
     /\ \E k \in 1..Len(n) :
          <<n[k]>> \in KNOWN_LOCATIONS \cup TEHRAN_NEIGHBORHOODS}

\* a known name of several words stands before token k
EarlierCompound(words, k) ==
  \E n \in KNOWN_LOCATIONS \cup TEHRAN_NEIGHBORHOODS :
    Len(n) >= 2 /\ \E j \in 1..(k - 1) : StandsAt(words, j, n)

\* C23 as stated: whenever the caption holds a known name of several words
\* one of whose words is itself a known location, the city (or the area) of
\* the record extractLocationsFromCaption returns is that name, wherever
\* its tokens stand.
C23_CompoundNameIsReturned ==
  \A i \in Geocoded : \A n \in CompoundCities :
    FirstAt(albums[i].caption_fa, n) # 0
      => \/ albums[i].geocoded.city_fa = n
         \/ albums[i].geocoded.area_fa = n

\* C23: whenever the caption holds such a name, the city of the record is
\* never the single word the name contains; it is the name itself exactly
\* when no other known name of several words stands before it, and is fixed
\* by that earlier name otherwise.
C23_CompoundBeforeItsWords ==
  \A i \in Geocoded : \A n \in CompoundCities :
    FirstAt(albums[i].caption_fa, n) # 0
      => /\ \A k \in 1..Len(n) : albums[i].geocoded.city_fa # <<n[k]>>
         /\ albums[i].geocoded.city_fa = n
              <=> ~EarlierCompound(albums[i].caption_fa,
                                   FirstAt(albums[i].caption_fa, n))

\* the caption names Tehran and then Bandar Anzali, whose second word is a
\* known city: the record's city is Bandar Anzali
C23_Witness ==
  /\ Geocoded # {}
  /\ albums[1].caption_fa = <<"tehran", "dar", "bandar", "anzali">>
  /\ albums[1].geocoded.city_fa = BandarAnzali


\* C24: whenever the record extractLocationsFromCaption returns has a
\* neighborhood of TEHRAN_NEIGHBORHOODS as its area, its city is Tehran, for
\* every caption and every order of its tokens.
C24_NeighborhoodAnchorsHomeCity ==
  \A i \in Geocoded :
    albums[i].geocoded.area_fa \in TEHRAN_NEIGHBORHOODS
      => albums[i].geocoded.city_fa = Tehran

\* the city of such a record is Tehran unless a known name that is no
\* neighborhood stands in the caption
C24_AnchoredUnlessAnotherCity ==
  \A i \in Geocoded :
    /\ albums[i].geocoded.area_fa \in TEHRAN_NEIGHBORHOODS
    /\ \A n \in KNOWN_LOCATIONS \ TEHRAN_NEIGHBORHOODS :
         FirstAt(albums[i].caption_fa, n) = 0
    => albums[i].geocoded.city_fa = Tehran


\* a request of queryWithRetry has failed and its frame is still in place
AttemptFailed ==
  /\ query.pc \in {"attempt", "provider"}
  /\ query.attempts >= 1
  /\ ~query.outcome.success

\* queryWithRetry goes on to another request for the same provider
Reattempts == query.pc = "attempt"

Transient(outcome) ==
  \/ outcome.cause \in {"timeout", "connection"}
  \/ outcome.status = 429
  \/ outcome.status \in 500..599

AuthError(outcome) == outcome.status \in {401, 403}

\* C25: a failed request is re-attempted exactly when the failure is
\* transient (429, 5xx, timeout, connection error) and retries are left,
\* never after an auth error (401, 403) whatever the message of the API;
\* no provider gets more than maxRetries + 1 requests.
C25_RetriesExactlyTransient ==
  AttemptFailed =>
    /\ query.attempts <= config.maxRetries + 1
    /\ Reattempts <=> /\ Transient(query.outcome)
                      /\ query.attempts <= config.maxRetries
    /\ AuthError(query.outcome) => ~Reattempts

\* what decides is the text of the error, not the status: a failed request
\* is re-attempted exactly when its error text holds one of the patterns
\* and retries are left; no provider gets more than maxRetries + 1 requests
C25_RetriesByErrorText ==
  AttemptFailed =>
    /\ query.attempts <= config.maxRetries + 1
    /\ query.lastResult.success = FALSE
    /\ Reattempts <=> /\ isRetryableError(query.lastResult.error)
                      /\ query.attempts <= config.maxRetries

\* a failure that carries no message of the API is classified as stated
C25_StatusDecidesWithoutMessage ==
  AttemptFailed /\ query.outcome.apiMsg = <<>> =>
    /\ Reattempts <=> /\ Transient(query.outcome)
                      /\ query.attempts <= config.maxRetries
    /\ AuthError(query.outcome) => ~Reattempts


IsPrefix(s, t) == Len(s) <= Len(t) /\ SubSeq(t, 1, Len(s)) = s

NoRepeats(s) == \A i, j \in DOMAIN s : s[i] = s[j] => i = j

\* the configured providers among those queryAI walks through, in its order
ConfiguredToTry(cfg) ==
  SelectSeq(providersToTry(cfg), LAMBDA p : p \in cfg.configured)

\* the providers queryWithRetry was called for come in the order of the
\* list, unconfigured ones left out
TriedInOrder ==
  /\ IsPrefix(query.tried, ConfiguredToTry(config))
  /\ query.tried # <<>> /\ config.provider \in config.configured
       => query.tried[1] = config.provider

\* no provider is queried after one has returned success
StopsAtSuccess == query.lastResult.success => query.pc = "done"

\* the result is a success exactly when a tried provider succeeded, and
\* 'No providers configured' when none of the list is configured
ResultAsStated ==
  query.pc = "done" =>
    /\ query.lastResult.success
         <=> query.tried # <<>> /\ query.outcome.success
    /\ ConfiguredToTry(config) = <<>>
         => query.lastResult = NoProvidersConfigured
    /\ ~query.lastResult.success
         => query.tried = ConfiguredToTry(config)

\* C26: queryAI tries the primary provider first and then the fallback
\* providers in their configured order, skipping unconfigured ones, each
\* provider at most once; it stops at the first success; the result is a
\* success exactly when some tried provider succeeded and 'No providers
\* configured' when none is configured.
C26_FallbackChainEachOnce ==
  /\ TriedInOrder
  /\ NoRepeats(query.tried)
  /\ StopsAtSuccess
  /\ ResultAsStated

\* all of it but the repeats: every entry of the list is tried once, so a
\* provider named twice among the fallbacks is tried twice
C26_FallbackChainInOrder ==
  /\ TriedInOrder
  /\ StopsAtSuccess
  /\ ResultAsStated
  /\ NoRepeats(config.fallbackProviders) => NoRepeats(query.tried)


\* analyze is in its batches, or has gone through them
InBatches == run.pc \in {"batch", "await", "done"}

\* 1 for Ollama, 3 for every cloud provider
ConcurrencyLimit == IF config.provider = "ollama" THEN 1 ELSE 3

\* the locations the album gets from the reply to its own caption
OwnResult(album) == processAnalysisResult(album.ai, locationsTable)

\* the albums of toAnalyze before place n have the result of their own
\* query, in memory and in albums.json; those from place n on have not
ProcessedUpTo(n) ==
  \A p \in DOMAIN run.toAnalyze :
    /\ p <= n => /\ albums[run.toAnalyze[p]].analysis
                 /\ albums[run.toAnalyze[p]].locations
                      = OwnResult(albums[run.toAnalyze[p]])
                 /\ disk[run.toAnalyze[p]] = albums[run.toAnalyze[p]]
    /\ p > n => albums[run.toAnalyze[p]].locations
                  # OwnResult(albums[run.toAnalyze[p]])

NoRequestMade == run'.pc # "await" /\ aiTranslations' = {}

\* C28: a command run with --dry-run, whatever its other flags, leaves
\* albums.json as it was and makes no AI request.
C28_DryRunChangesNothing ==
  [][dryRun => disk' = disk /\ NoRequestMade]_vars

\* analyze and geocode with --dry-run, and download with --dry-run but
\* without --metadata-only, leave albums.json as it was and make no request
C28_DryRunUnlessMetadataOnly ==
  [][dryRun /\ ~(pc = "download" /\ options.metadataOnly)
       => disk' = disk /\ NoRequestMade]_vars


\* the albums whose queries are in flight
InFlightAlbums ==
  {run.toAnalyze[run.i + j] : j \in {n \in DOMAIN run.results :
                                       run.pc = "await"}}

\* with --resume no query is under way for an album that has an analysis
\* record in albums.json
NoQueryForAnalyzed ==
  options.resume /\ run.pc = "await" =>
    \A k \in InFlightAlbums : ~disk[k].analysis /\ ~albums[k].analysis

\* a step of analyze with --resume keeps every album that has an analysis
\* record, in memory and in albums.json
AnalyzedKept ==
  options.resume /\ pc = "analyze" =>
    \A k \in DOMAIN disk :
      disk[k].analysis =>
        /\ k \in DOMAIN disk' /\ disk'[k] = disk[k]
        /\ k \in DOMAIN albums' /\ albums'[k] = disk[k]

\* geocode with --resume keeps every album that has a geocoded record that
\* is not empty
GeocodedKept ==
  options.resume /\ pc = "geocode" =>
    \A k \in DOMAIN disk :
      disk[k].geocoded # NoLocations =>
        /\ k \in DOMAIN disk' /\ disk'[k] = disk[k]
        /\ k \in DOMAIN albums' /\ albums'[k] = disk[k]

\* C29: with --resume analyze makes no query for an album that has an
\* analysis record and leaves the record as it is, and geocode leaves every
\* album with a geocoded record that is not empty as it is; as albums.json
\* is written after every batch, an analyze run that was interrupted and
\* started again with --resume makes no query for an album whose batch had
\* been completed.
C29_ResumeSkipsProcessed ==
  /\ []NoQueryForAnalyzed
  /\ [][AnalyzedKept /\ GeocodedKept]_vars

\* an interrupted run has been started again with --resume: the first album
\* has the result of the batch completed before, and the first query now in
\* flight is that of the second album
C29_Witness ==
  /\ options.resume
  /\ run.pc = "await"
  /\ Len(disk) >= 2
  /\ disk[1].analysis
  /\ disk[1].locations = OwnResult(disk[1])
  /\ disk[1].locations # NoLocations
  /\ run.toAnalyze[1] = 2
  /\ 1 \in run.inFlight


\* the caption holds the word for the day after tomorrow, in one of its two
\* spellings, and no numeric date, no month name and no word for today,
\* yesterday or the day before yesterday
OnlyDayAfterTomorrow(caption) ==
  /\ \/ includes(caption, RELATIVE_DAYS[5].word)
     \/ includes(caption, RELATIVE_DAYS[6].word)
  /\ numericDates(caption, 1) = <<>>
  /\ monthSegments(caption, 1) = <<>>
  /\ \A k \in 1..3 : ~includes(caption, RELATIVE_DAYS[k].word)

\* the album has no AI phrase that resolves and such a caption
OnDayAfterTomorrowPath(album) ==
  /\ FirstResolving(AIDates(album), album.telegram_date) = 0
  /\ OnlyDayAfterTomorrow(album.caption_fa)

\* C30: an album with no resolvable AI date whose caption holds the word
\* for the day after tomorrow (either spelling) and no other date gets its
\* telegram date plus 2 days with the tag caption: the candidate chosen is
\* the word that stands in the caption, not a shorter word inside it.
C30_DayAfterTomorrowKeepsOffset ==
  \A i \in Processed :
    OnDayAfterTomorrowPath(albums[i])
      => /\ albums[i].resolved_dates.source = "caption"
         /\ albums[i].resolved_dates.gregorian
              = toGregorianString(addDays(albums[i].telegram_date, 2))

\* such an album gets its telegram date plus 1 day: the word for tomorrow
\* stands inside both spellings and comes first among the candidates
C30_TomorrowInsideWins ==
  \A i \in Processed :
    OnDayAfterTomorrowPath(albums[i])
      => /\ albums[i].resolved_dates.source = "caption"
         /\ extractDatesFromCaption(albums[i].caption_fa)[1] = Tomorrow
         /\ albums[i].resolved_dates.gregorian
              = toGregorianString(addDays(albums[i].telegram_date, 1))

====
